---- MODULE Spec2Model ----
(***************************************************************************)
(* Model of the SCZN3 SEC backend (sczn3-sec-backend-pipe).  The           *)
(* repository holds many variants of one server; every variant exposes     *)
(* POST /api/sec.  A variant is named after the file that holds it         *)
(* (part_004, part_011, ...); server.js holds four variants, named after   *)
(* their build tags.                                                       *)
(*                                                                         *)
(* Numbers.  A JavaScript number is modelled as a pair <<n, d>>: the       *)
(* rational n/d in lowest terms with d > 0, or a non-finite value when     *)
(* d = 0 (<<1,0>> = Infinity, <<-1,0>> = -Infinity, <<0,0>> = NaN).        *)
(* Arithmetic is exact: the rounding error of IEEE doubles and the sign of *)
(* zero are not modelled.                                                  *)
(*                                                                         *)
(* JSON values.  A field of a request body is a record [t, v]: t = "num"   *)
(* with the number v, or "null", "absent" (undefined) or "text" (a value   *)
(* that Number() turns into NaN).                                          *)
(***************************************************************************)
EXTENDS Integers, Sequences, FiniteSets, TLC

VARIABLES
  variant,   \* the variant whose handler served the last request, or "idle"
  req,       \* the request being served
  resp       \* the response the handler wrote

vars == <<variant, req, resp>>

(***************************************************************************)
(* JavaScript numbers                                                      *)
(***************************************************************************)
Abs(i) == IF i < 0 THEN -i ELSE i

Sgn(i) == IF i > 0 THEN 1 ELSE IF i < 0 THEN -1 ELSE 0

RECURSIVE Gcd(_, _)
Gcd(a, b) == IF b = 0 THEN a ELSE Gcd(b, a % b)

Q(n, d) ==
  IF d = 0 THEN <<Sgn(n), 0>>
  ELSE LET g == Gcd(Abs(n), Abs(d)) IN
       IF d < 0 THEN <<(-n) \div g, (-d) \div g>> ELSE <<n \div g, d \div g>>

NaN == <<0, 0>>

Whole(i) == <<i, 1>>

\* h hundredths: 425 is the number 4.25
Hun(h) == Q(h, 100)

IsFinite(a) == a[2] # 0

IsZero(a) == a[2] # 0 /\ a[1] = 0

QNeg(a) == <<-a[1], a[2]>>

QAdd(a, b) ==
  IF a[2] # 0 /\ b[2] # 0 THEN Q(a[1] * b[2] + b[1] * a[2], a[2] * b[2])
  ELSE IF a[2] # 0 THEN b
  ELSE IF b[2] # 0 THEN a
  ELSE IF a = b THEN a ELSE NaN

QSub(a, b) == QAdd(a, QNeg(b))

\* a * b, cancelling common factors before multiplying
QMul(a, b) ==
  IF a[2] # 0 /\ b[2] # 0
  THEN LET g == Gcd(Abs(a[1]), b[2])
           k == Gcd(Abs(b[1]), a[2])
       IN Q((a[1] \div g) * (b[1] \div k), (a[2] \div k) * (b[2] \div g))
  ELSE <<Sgn(a[1]) * Sgn(b[1]), 0>>

QDiv(a, b) ==
  IF a[2] # 0 /\ b[2] # 0 /\ b[1] # 0 THEN QMul(a, IF b[1] < 0 THEN <<-b[2], -b[1]>> ELSE <<b[2], b[1]>>)
  ELSE IF a[2] # 0 /\ b[2] # 0 THEN <<Sgn(a[1]), 0>>
  ELSE IF a[2] # 0 THEN (IF b[1] = 0 THEN NaN ELSE <<0, 1>>)
  ELSE IF b[2] # 0 THEN <<a[1] * (IF b[1] < 0 THEN -1 ELSE 1), 0>>
  ELSE NaN

\* a < b; false when either is NaN
QLt(a, b) ==
  IF a = NaN \/ b = NaN THEN FALSE
  ELSE IF a[2] # 0 /\ b[2] # 0 THEN a[1] * b[2] < b[1] * a[2]
  ELSE IF a[2] = 0 THEN a[1] = -1 /\ b # a
  ELSE b[1] = 1

QLe(a, b) == a # NaN /\ b # NaN /\ ~QLt(b, a)

IsPos(a) == a[1] > 0

IsNeg(a) == a[1] < 0

QAbs(a) == <<Abs(a[1]), a[2]>>

\* Math.max(a, b): NaN when either is NaN
QMax(a, b) == IF a = NaN \/ b = NaN THEN NaN ELSE IF QLt(a, b) THEN b ELSE a

\* Math.floor
QFloor(a) == IF a[2] = 0 THEN a ELSE <<a[1] \div a[2], 1>>

\* Math.round: the nearest integer, a tie going up
MathRound(a) == IF a[2] = 0 THEN a ELSE <<(2 * a[1] + a[2]) \div (2 * a[2]), 1>>

round2(n) == QDiv(MathRound(QMul(n, Whole(100))), Whole(100))

\* round2 of the variants that return 0 for a non-finite argument
round2Safe(n) == IF ~IsFinite(n) THEN Whole(0) ELSE round2(n)

\* the number hundredths/100 of a value that round2 produced
Hundredths(a) == (a[1] * 100) \div a[2]

(***************************************************************************)
(* JSON values of a request body                                           *)
(***************************************************************************)
Num(h) == [t |-> "num", v |-> Hun(h)]

Absent == [t |-> "absent", v |-> NaN]

Null == [t |-> "null", v |-> NaN]

Text == [t |-> "text", v |-> NaN]

\* Number(v): null is 0, undefined and non-numeric text are NaN
Number(j) == IF j.t = "num" THEN j.v ELSE IF j.t = "null" THEN Whole(0) ELSE NaN

\* v == null
IsNullish(j) == j.t \in {"null", "absent"}

\* one element of holes[]: an object with fields x and y, or something that
\* is not an object (null, a number)
Hole(x, y) == [obj |-> TRUE, x |-> x, y |-> y]

NotObj == [obj |-> FALSE, x |-> Absent, y |-> Absent]

Pt(x, y) == [x |-> x, y |-> y]

RECURSIVE SumX(_)
SumX(pts) == IF pts = <<>> THEN Whole(0) ELSE QAdd(SumX(SubSeq(pts, 1, Len(pts) - 1)), pts[Len(pts)].x)

RECURSIVE SumY(_)
SumY(pts) == IF pts = <<>> THEN Whole(0) ELSE QAdd(SumY(SubSeq(pts, 1, Len(pts) - 1)), pts[Len(pts)].y)

\* the mean of a list of points; 0/0 = NaN for the empty list
computePOIB(holes) ==
  Pt(QDiv(SumX(holes), Whole(Len(holes))), QDiv(SumY(holes), Whole(Len(holes))))

\* the elements of holes[] that are objects with finite Number(x), Number(y),
\* as numbers: what every coordinate variant keeps of holes[]
HoleIsValid(h) == h.obj /\ IsFinite(Number(h.x)) /\ IsFinite(Number(h.y))

RECURSIVE CleanHoles(_)
CleanHoles(hs) ==
  IF hs = <<>> THEN <<>>
  ELSE LET rest == CleanHoles(SubSeq(hs, 1, Len(hs) - 1))
           h == hs[Len(hs)]
       IN IF HoleIsValid(h) THEN Append(rest, Pt(Number(h.x), Number(h.y))) ELSE rest

\* the shooter's MOA of 1 inch at 100 yards, which no variant uses
inchesPerShooterMOA(distanceYards) == QDiv(distanceYards, Whole(100))

\* True MOA: 1.047 inches at 100 yards
inchesPerMOA(distanceYards) == QMul(Q(1047, 1000), QDiv(distanceYards, Whole(100)))

\* an ok:false response with its HTTP status and error code
Failure(status, code) == [status |-> status, ok |-> FALSE, error |-> code]

\* an ok:true response: the signed clicks and their labels, with the POIB and
\* the bull the handler worked from (before the response rounds them)
Success(w, e, wl, el, poib, bull, used) ==
  [status |-> 200, ok |-> TRUE, error |-> "", windage |-> w, elevation |-> e,
   windageLabel |-> wl, elevationLabel |-> el, poib |-> poib, bull |-> bull,
   holesUsed |-> used]

(***************************************************************************)
(* Coordinate-mode requests.  One body serves every coordinate variant:    *)
(* bullX/bullY stand for the variant's bull fields (bullX, bull.x or       *)
(* bullXIn), deadband for deadbandInches or deadbandIn.  holes is the      *)
(* array sent.  A body with poib has no holes field; a body with neither   *)
(* carries holes: [] (every variant but part_013 treats the two alike).    *)
(* The target is the letter sheet: the default of part_011 and part_014,   *)
(* and the targetSizeSpec "8.5x11" part_013 is sent.                       *)
(***************************************************************************)
MaxHoles == 2

HoleElems ==
  { Hole(Num(390), Num(485)), Hole(Num(388), Num(478)), Hole(Null, Num(485)),
    Hole(Num(390), Absent), NotObj }

HoleLists == UNION { [1..k -> HoleElems] : k \in 0..MaxHoles }

Bulls == { <<Absent, Absent>>, <<Num(425), Num(550)>>, <<Num(390), Num(485)>>,
           <<Num(389), Num(481)>> }

Distances == { Absent, Num(0), Num(10000), Num(-10000) }

ClickValues == { Absent, Num(25), Num(0), Num(-25) }

Deadbands == { Absent, Num(10) }

MinShotsValues == { Absent, Num(200) }

Body(holes, poib, bull, d, c, db, ms) ==
  [holes |-> holes, poibX |-> poib[1], poibY |-> poib[2], bullX |-> bull[1],
   bullY |-> bull[2], distanceYards |-> d, clickValueMoa |-> c, deadband |-> db,
   minShots |-> ms]

\* a body with holes[], or a body with poib{} and no holes
CoordBodies ==
  { Body(hs, <<Absent, Absent>>, b, d, c, db, ms) :
      hs \in HoleLists, b \in Bulls, d \in Distances, c \in ClickValues,
      db \in Deadbands, ms \in MinShotsValues }
  \cup
  { Body(<<>>, <<Num(388), Num(615)>>, b, d, c, db, Absent) :
      b \in Bulls, d \in Distances, c \in ClickValues, db \in Deadbands }

(***************************************************************************)
(* part_004: POIB -> Bull, Y axis down                                     *)
(***************************************************************************)
safeNum(v, fallback) == IF IsFinite(Number(v)) THEN Number(v) ELSE fallback

labelWindageFromSigned(w) ==
  IF IsZero(w) THEN "HOLD" ELSE IF IsPos(w) THEN "RIGHT" ELSE "LEFT"

labelElevationFromSigned(e) ==
  IF IsZero(e) THEN "HOLD" ELSE IF IsPos(e) THEN "UP" ELSE "DOWN"

PostSec_004(body) ==
  LET distanceYards == safeNum(body.distanceYards, Whole(100))
      clickValueMoa == safeNum(body.clickValueMoa, Hun(25))
      deadbandInches == safeNum(body.deadband, Hun(10))
      bull == Pt(safeNum(body.bullX, Hun(425)), safeNum(body.bullY, Hun(550)))
      holes == CleanHoles(body.holes)
      hasPoib == IsFinite(Number(body.poibX)) /\ IsFinite(Number(body.poibY))
      poib == IF holes # <<>> THEN computePOIB(holes)
              ELSE Pt(Number(body.poibX), Number(body.poibY))
      inchesPerClick == QMul(QMul(QDiv(distanceYards, Whole(100)), Q(1047, 1000)), clickValueMoa)
      dxIn == QSub(poib.x, bull.x)
      dyIn == QSub(poib.y, bull.y)
      dxAdj == IF QLt(QAbs(dxIn), deadbandInches) THEN Whole(0) ELSE dxIn
      dyAdj == IF QLt(QAbs(dyIn), deadbandInches) THEN Whole(0) ELSE dyIn
      windageSigned == IF IsZero(inchesPerClick) THEN Whole(0) ELSE QDiv(dxAdj, inchesPerClick)
      elevationSigned == IF IsZero(inchesPerClick) THEN Whole(0) ELSE QDiv(dyAdj, inchesPerClick)
  IN IF holes = <<>> /\ ~hasPoib THEN Failure(400, "MISSING_INPUT")
     ELSE Success(round2(windageSigned), round2(elevationSigned),
                  labelWindageFromSigned(windageSigned),
                  labelElevationFromSigned(elevationSigned), poib, bull, Len(holes))

(***************************************************************************)
(* part_005: POIB_TO_BULL_YDOWN_LOCKED_V4                                  *)
(***************************************************************************)
labelFromSignedWindage(w) ==
  IF IsPos(w) THEN "RIGHT" ELSE IF IsNeg(w) THEN "LEFT" ELSE "HOLD"

labelFromSignedElevation(e) ==
  IF IsPos(e) THEN "UP" ELSE IF IsNeg(e) THEN "DOWN" ELSE "HOLD"

PostSec_005(body) ==
  LET distanceYards == Number(body.distanceYards)
      clickValueMoa == Number(body.clickValueMoa)
      deadbandInches == IF IsNullish(body.deadband) THEN Whole(0) ELSE Number(body.deadband)
      bullX == Number(body.bullX)
      bullY == Number(body.bullY)
      cleaned == CleanHoles(body.holes)
      hasPoibObject == body.poibX.t # "absent" \/ body.poibY.t # "absent"
      poib == IF body.holes # <<>> THEN computePOIB(cleaned)
              ELSE Pt(Number(body.poibX), Number(body.poibY))
      inchesPerClick == QMul(QMul(QDiv(distanceYards, Whole(100)), Q(1047, 1000)), clickValueMoa)
      dxIn == QSub(poib.x, bullX)
      dyIn == QSub(poib.y, bullY)
      dxAdj == IF QLt(QAbs(dxIn), deadbandInches) THEN Whole(0) ELSE dxIn
      dyAdj == IF QLt(QAbs(dyIn), deadbandInches) THEN Whole(0) ELSE dyIn
      windageSigned == IF IsZero(dxAdj) THEN Whole(0) ELSE QDiv(QNeg(dxAdj), inchesPerClick)
      elevationSigned == IF IsZero(dyAdj) THEN Whole(0) ELSE QDiv(dyAdj, inchesPerClick)
  IN IF ~IsFinite(distanceYards) \/ QLe(distanceYards, Whole(0)) THEN Failure(400, "BAD_DISTANCE_YARDS")
     ELSE IF ~IsFinite(clickValueMoa) \/ QLe(clickValueMoa, Whole(0)) THEN Failure(400, "BAD_CLICK_VALUE_MOA")
     ELSE IF ~IsFinite(bullX) \/ ~IsFinite(bullY) THEN Failure(400, "BAD_BULL")
     ELSE IF ~IsFinite(deadbandInches) \/ QLt(deadbandInches, Whole(0)) THEN Failure(400, "BAD_DEADBAND")
     ELSE IF body.holes # <<>> /\ cleaned = <<>> THEN Failure(400, "BAD_HOLES")
     ELSE IF body.holes = <<>> /\ ~hasPoibObject THEN Failure(400, "MISSING_INPUT")
     ELSE IF body.holes = <<>> /\ (~IsFinite(poib.x) \/ ~IsFinite(poib.y)) THEN Failure(400, "BAD_POIB")
     ELSE Success(round2(QMul(QAbs(windageSigned), IF IsNeg(windageSigned) THEN Whole(-1) ELSE Whole(1))),
                  round2(QMul(QAbs(elevationSigned), IF IsNeg(elevationSigned) THEN Whole(-1) ELSE Whole(1))),
                  labelFromSignedWindage(windageSigned),
                  labelFromSignedElevation(elevationSigned), poib, Pt(bullX, bullY),
                  Len(cleaned))

(***************************************************************************)
(* part_011: POIB_ANCHOR_V2                                                *)
(***************************************************************************)
toNumber(v, fallback) ==
  IF IsNullish(v) THEN fallback ELSE IF IsFinite(Number(v)) THEN Number(v) ELSE fallback

dirLR(v) == IF QLe(Whole(0), v) THEN "RIGHT" ELSE "LEFT"

dirUD(v) == IF QLe(Whole(0), v) THEN "UP" ELSE "DOWN"

PostSec_011(body) ==
  LET distanceYards == toNumber(body.distanceYards, Whole(100))
      clickValueMoa == toNumber(body.clickValueMoa, Hun(25))
      minShots == QMax(Whole(1), QFloor(toNumber(body.minShots, Whole(3))))
      deadbandIn == QMax(Whole(0), toNumber(body.deadband, Whole(0)))
      widthIn == Hun(850)
      heightIn == Whole(11)
      bull == Pt(toNumber(body.bullX, QDiv(widthIn, Whole(2))),
                 toNumber(body.bullY, QDiv(heightIn, Whole(2))))
      holes == CleanHoles(body.holes)
      poib == computePOIB(holes)
      dxIn == QSub(bull.x, poib.x)
      dyIn == QSub(bull.y, poib.y)
      dxDb == IF QLt(QAbs(dxIn), deadbandIn) THEN Whole(0) ELSE dxIn
      dyDb == IF QLt(QAbs(dyIn), deadbandIn) THEN Whole(0) ELSE dyIn
      inchesPerClick == QMul(inchesPerMOA(distanceYards), clickValueMoa)
      wClicks == round2Safe(QDiv(dxDb, inchesPerClick))
      eClicks == round2Safe(QDiv(QSub(poib.y, bull.y), inchesPerClick))
  IN IF QLt(Whole(Len(holes)), minShots) THEN Failure(400, "NOT_ENOUGH_SHOTS")
     ELSE IF ~IsFinite(inchesPerClick) \/ QLe(inchesPerClick, Whole(0)) THEN Failure(400, "BAD_CLICK_VALUE")
     ELSE Success(wClicks, eClicks, dirLR(wClicks), dirUD(eClicks), poib, bull, Len(holes))

(***************************************************************************)
(* part_014: POIB_TO_BULL_YDOWN_CLEAN_V1 (elevation + = DOWN)              *)
(***************************************************************************)
\* asNumber(v) ?? fallback
asNumberOr(v, fallback) == IF IsFinite(Number(v)) THEN Number(v) ELSE fallback

labelFromSigned(v, posLabel, negLabel) ==
  IF IsPos(v) THEN posLabel ELSE IF IsNeg(v) THEN negLabel ELSE "NONE"

PostSec_014(body) ==
  LET bull == Pt(asNumberOr(body.bullX, Hun(425)), asNumberOr(body.bullY, Hun(550)))
      distanceYards == asNumberOr(body.distanceYards, Whole(100))
      clickValueMoa == asNumberOr(body.clickValueMoa, Hun(25))
      clean == CleanHoles(body.holes)
      poib == computePOIB(clean)
      deadbandIn == asNumberOr(body.deadband, Hun(10))
      dxIn == QSub(bull.x, poib.x)
      dyIn == QSub(bull.y, poib.y)
      ipm == inchesPerMOA(distanceYards)
      windageClicks == QDiv(QDiv(dxIn, ipm), clickValueMoa)
      elevationClicks == QDiv(QDiv(dyIn, ipm), clickValueMoa)
      w == round2(windageClicks)
      e == round2(elevationClicks)
  IN IF body.holes = <<>> THEN Failure(400, "NO_HOLES")
     ELSE IF clean = <<>> THEN Failure(400, "NO_VALID_HOLES")
     ELSE Success(w, e, labelFromSigned(w, "RIGHT", "LEFT"),
                  labelFromSigned(e, "DOWN", "UP"), poib, bull, Len(clean))

(***************************************************************************)
(* part_012: the direction words of the gateway                            *)
(***************************************************************************)
signedToDirections(clicksSigned) ==
  LET w == clicksSigned.windage
      e == clicksSigned.elevation
  IN [windage |-> [dir |-> IF IsPos(w) THEN "RIGHT" ELSE IF IsNeg(w) THEN "LEFT" ELSE "RIGHT",
                   clicks |-> round2(QAbs(w))],
      elevation |-> [dir |-> IF IsPos(e) THEN "UP" ELSE IF IsNeg(e) THEN "DOWN" ELSE "UP",
                     clicks |-> round2(QAbs(e))]]

(***************************************************************************)
(* part_013: POIB_ANCHOR_CLEAN_V1, sent targetSizeSpec "8.5x11" and no     *)
(* yAxis (so Y is up).  Only the direction word of a label is modelled.    *)
(***************************************************************************)
labelFromSignedDelta(axis, signedClicks) ==
  IF axis = "windage"
  THEN (IF IsPos(signedClicks) THEN "RIGHT" ELSE IF IsNeg(signedClicks) THEN "LEFT" ELSE "RIGHT")
  ELSE (IF IsPos(signedClicks) THEN "UP" ELSE IF IsNeg(signedClicks) THEN "DOWN" ELSE "UP")

\* the clicks at 100 yards, whatever the distance
toClicksAt100(inches, distanceYards, clickValueMoa) ==
  QDiv(QDiv(inches, inchesPerMOA(Whole(100))), clickValueMoa)

toClicks(inches, distanceYards, clickValueMoa) ==
  QDiv(QDiv(inches, inchesPerMOA(distanceYards)), clickValueMoa)

\* v != null ? mustNumber(v) : fallback; NaN stands for the throw
mustNumberOr(v, fallback) == IF IsNullish(v) THEN fallback ELSE Number(v)

PostSec_013(body) ==
  LET distanceYards == mustNumberOr(body.distanceYards, Whole(100))
      clickValueMoa == mustNumberOr(body.clickValueMoa, Hun(25))
      bull == Pt(mustNumberOr(body.bullX, QDiv(Hun(850), Whole(2))),
                 mustNumberOr(body.bullY, QDiv(Whole(11), Whole(2))))
      parsed == body.holes
      holes == [i \in 1..Len(parsed) |-> Pt(Number(parsed[i].x), Number(parsed[i].y))]
      poib == computePOIB(holes)
      dxIn == QSub(bull.x, poib.x)
      dyIn == QSub(bull.y, poib.y)
      deadbandIn == mustNumberOr(body.deadband, Whole(0))
      windClicks == IF QLe(QAbs(dxIn), deadbandIn) THEN Whole(0)
                    ELSE toClicks(dxIn, distanceYards, clickValueMoa)
      elevClicks == IF QLe(QAbs(dyIn), deadbandIn) THEN Whole(0)
                    ELSE toClicks(dyIn, distanceYards, clickValueMoa)
      w == round2(windClicks)
      e == round2(elevClicks)
  IN IF ~IsFinite(distanceYards) THEN Failure(400, "BAD_DISTANCEYARDS")
     ELSE IF ~IsFinite(clickValueMoa) THEN Failure(400, "BAD_CLICKVALUEMOA")
     ELSE IF ~IsFinite(bull.x) THEN Failure(400, "BAD_BULLX")
     ELSE IF ~IsFinite(bull.y) THEN Failure(400, "BAD_BULLY")
     ELSE IF parsed = <<>> /\ body.poibX.t # "absent" THEN Failure(400, "MISSING_INPUT")
     ELSE IF parsed = <<>> THEN Failure(400, "BAD_HOLES")
     ELSE IF \E i \in 1..Len(parsed) :
               /\ \A j \in 1..(i - 1) : HoleIsValid(parsed[j])
               /\ ~parsed[i].obj
          THEN Failure(400, "TypeError")
     ELSE IF \E i \in 1..Len(parsed) :
               /\ \A j \in 1..(i - 1) : HoleIsValid(parsed[j])
               /\ ~IsFinite(Number(parsed[i].x))
          THEN Failure(400, "BAD_HOLEX")
     ELSE IF \E i \in 1..Len(parsed) : ~HoleIsValid(parsed[i]) THEN Failure(400, "BAD_HOLEY")
     ELSE IF ~IsFinite(deadbandIn) THEN Failure(400, "BAD_DEADBANDIN")
     ELSE Success(w, e, labelFromSignedDelta("windage", w),
                  labelFromSignedDelta("elevation", e), poib, bull, Len(holes))

(***************************************************************************)
(* Images.  A normalized grayscale image is its width, its height and the  *)
(* set of its dark pixels, by linear index y * w + x: a dark pixel has     *)
(* gray 0, every other pixel gray 255.  A request without a file carries   *)
(* NoImage.                                                                *)
(***************************************************************************)
Image(w, h, dark) == [w |-> w, h |-> h, dark |-> dark]

NoImage == Image(0, 0, {})

gray(img, idx) == IF idx \in img.dark THEN 0 ELSE 255

\* the pixels of the rectangle x0..x1 by y0..y1 of an image of width w
Rect(w, x0, x1, y0, y1) == { y * w + x : x \in x0..x1, y \in y0..y1 }

\* the mean gray of an image
MeanGray(img) == Q(255 * (img.w * img.h - Cardinality(img.dark)), img.w * img.h)

MinOf(S) == CHOOSE m \in S : \A n \in S : m <= n

\* the neighbours a flood fill visits from pixel cur: "n4", the in-bounds
\* 4-neighbours; "n8", the in-bounds 8-neighbours; "n8linear", the eight
\* indices cur + dy * W + dx that lie in the buffer, with no check of the
\* column (so a fill steps from the first column to the last of the row above)
Neighbours(cur, W, H, conn) ==
  LET cy == cur \div W
      cx == cur - cy * W
  IN IF conn = "n4"
     THEN (IF cx > 0 THEN {cur - 1} ELSE {}) \cup (IF cx < W - 1 THEN {cur + 1} ELSE {})
          \cup (IF cy > 0 THEN {cur - W} ELSE {}) \cup (IF cy < H - 1 THEN {cur + W} ELSE {})
     ELSE IF conn = "n8"
     THEN { (cy + dy) * W + cx + dx : dx \in {d \in -1..1 : cx + d \in 0..(W - 1)},
                                      dy \in {d \in -1..1 : cy + d \in 0..(H - 1)} } \ {cur}
     ELSE ({ cur + dy * W + dx : dx \in -1..1, dy \in -1..1 } \ {cur}) \cap (0..(W * H - 1))

\* the pixels a flood fill counts: those of `allowed` it reaches from the
\* pixels of `frontier`, added to `seen`
RECURSIVE Flood(_, _, _, _, _, _)
Flood(seen, frontier, allowed, W, H, conn) ==
  LET new == ((UNION { Neighbours(i, W, H, conn) : i \in frontier }) \cap allowed) \ seen
  IN IF new = {} THEN seen ELSE Flood(seen \cup new, new, allowed, W, H, conn)

\* the fills of a raster scan, in the order the scan starts them: a fill
\* starts at each pixel of `starts` that no earlier fill has visited
RECURSIVE Fills(_, _, _, _, _)
Fills(starts, allowed, W, H, conn) ==
  IF starts = {} THEN <<>>
  ELSE LET start == MinOf(starts)
           blob == Flood({start}, {start}, allowed, W, H, conn)
       IN <<blob>> \o Fills(starts \ blob, allowed \ blob, W, H, conn)

\* the sum f[lo] + ... + f[hi], by halves
RECURSIVE SumRange(_, _, _)
SumRange(f, lo, hi) ==
  IF lo > hi THEN 0
  ELSE IF lo = hi THEN f[lo]
  ELSE SumRange(f, lo, (lo + hi) \div 2) + SumRange(f, ((lo + hi) \div 2) + 1, hi)

\* sum of the x (of the y) coordinates of a set of pixels: each column (row)
\* counts once for every pixel of the set in it
SumCols(px, W) ==
  SumRange([x \in 0..(W - 1) |-> x * Cardinality({ i \in px : i % W = x })], 0, W - 1)

SumRows(px, W) ==
  IF px = {} THEN 0
  ELSE LET last == (CHOOSE m \in px : \A n \in px : n <= m) \div W
       IN SumRange([y \in 0..last |-> y * Cardinality({ i \in px : i \div W = y })], 0, last)

\* the elements of a sequence that satisfy Keep, in order
SelectIdx(seq, keep) ==
  LET F[i \in 0..Len(seq)] ==
        IF i = 0 THEN <<>> ELSE IF i \in keep THEN Append(F[i - 1], seq[i]) ELSE F[i - 1]
  IN F[Len(seq)]

\* a stable sort of records by their field px, ascending
RECURSIVE SortByPx(_)
SortByPx(seq) ==
  IF seq = <<>> THEN <<>>
  ELSE LET m == CHOOSE i \in 1..Len(seq) :
                  /\ \A j \in 1..Len(seq) : seq[i].px <= seq[j].px
                  /\ \A j \in 1..(i - 1) : seq[j].px # seq[i].px
       IN <<seq[m]>> \o SortByPx(SelectIdx(seq, (1..Len(seq)) \ {m}))

(***************************************************************************)
(* Image-mode requests                                                     *)
(***************************************************************************)
\* the length of the 1-pixel line of the line images
LineLen == 30

\* the side of the square target images
Side == 40

\* a cross through the middle of a Side x Side image
Cross == Rect(Side, Side \div 2, Side \div 2, 0, Side - 1)
           \cup Rect(Side, 0, Side - 1, Side \div 2, Side \div 2)

\* the border of a target, one pixel inside the image
Frame == Rect(Side, 1, 1, 1, Side - 2) \cup Rect(Side, Side - 2, Side - 2, 1, Side - 2)
           \cup Rect(Side, 1, Side - 2, 1, 1) \cup Rect(Side, 1, Side - 2, Side - 2, Side - 2)

\* a 5 x 5 bullet hole with its corner at (x, y)
Shot(x, y) == Rect(Side, x, x + 4, y, y + 4)

Images ==
  { Image(Side, Side, {}),
    Image(3, 3, {}),
    Image(8, 50, {}),
    Image(8, LineLen, Rect(8, 0, 0, 0, LineLen - 1)),
    Image(LineLen, 8, Rect(LineLen, 0, LineLen - 1, 0, 0)),
    Image(Side, Side, Cross),
    Image(Side, Side, Frame \cup Cross),
    Image(Side, Side, Frame \cup Cross \cup Shot(8, 8)),
    Image(Side, Side, Frame \cup Cross \cup Shot(27, 27)) }

\* a manual POIB, which part_009 takes instead of the image's
ManualPoibs == { <<Absent, Absent>>, <<Num(-150), Num(50)>> }

ImageBodies ==
  { [image |-> im, distanceYards |-> d, clickValueMoa |-> c, poibX |-> m[1], poibY |-> m[2]] :
      im \in Images \cup {NoImage}, d \in Distances, c \in ClickValues, m \in ManualPoibs }

(***************************************************************************)
(* server.js, build REAL_ALWAYS_IMAGE_POIB_v1                              *)
(***************************************************************************)
\* the first index of the largest arr[i], start <= i <= end
peakIndex(arr, start, end) ==
  CHOOSE i \in start..end :
    /\ \A j \in start..end : arr[j] <= arr[i]
    /\ \A j \in start..(i - 1) : arr[j] < arr[i]

Floor100(n, pct) == (n * pct) \div 100

Max(a, b) == IF a >= b THEN a ELSE b

Min(a, b) == IF a <= b THEN a ELSE b

\* the pixels a fill may take: at or below the threshold and outside the
\* bands around the centre lines
fillablePixels(norm, xCenter, yCenter, thr) ==
  LET W == norm.w
      H == norm.h
      excludeX0 == Max(0, xCenter - Floor100(W, 2))
      excludeX1 == Min(W - 1, xCenter + Floor100(W, 2))
      excludeY0 == Max(0, yCenter - Floor100(H, 2))
      excludeY1 == Min(H - 1, yCenter + Floor100(H, 2))
      isExcluded(i) ==
        \/ (i % W >= excludeX0 /\ i % W <= excludeX1)
        \/ (i \div W >= excludeY0 /\ i \div W <= excludeY1)
  IN { i \in 0..(W * H - 1) : ~isExcluded(i) /\ QLe(Whole(gray(norm, i)), thr) }

\* the holes: the fills of 20 to 2000 pixels, each with its centroid
holesOfFills(fills, W) ==
  SelectIdx([k \in 1..Len(fills) |->
               [x |-> Q(SumCols(fills[k], W), Cardinality(fills[k])),
                y |-> Q(SumRows(fills[k], W), Cardinality(fills[k])),
                px |-> Cardinality(fills[k])]],
            { k \in 1..Len(fills) :
                Cardinality(fills[k]) >= 20 /\ Cardinality(fills[k]) <= 2000 })

\* the centre of the group: the mean of the (at most 25) smallest holes, or
\* the centre of the target when there are no holes
groupOf(holes, centerPx, W, H) ==
  [centerPx |-> centerPx,
   groupCenterPx |-> IF Len(holes) = 0 THEN centerPx
                     ELSE computePOIB(SubSeq(SortByPx(holes), 1, Min(25, Len(holes)))),
   pixelsPerInch |-> Q(Min(W, H), 23),
   holesDetected |-> Len(holes)]

detectTargetAndGroup(norm) ==
  LET W == norm.w
      H == norm.h
      colSum == [x \in 0..(W - 1) |-> 255 * Cardinality({ i \in norm.dark : i % W = x })]
      rowSum == [y \in 0..(H - 1) |-> 255 * Cardinality({ i \in norm.dark : i \div W = y })]
      xCenter == peakIndex(colSum, Floor100(W, 25), Floor100(W, 75))
      yCenter == peakIndex(rowSum, Floor100(H, 25), Floor100(H, 75))
      mean == MeanGray(norm)
      thr == QMax(Whole(60), IF QLt(QSub(mean, Whole(70)), Whole(140))
                             THEN QSub(mean, Whole(70)) ELSE Whole(140))
      fillable == fillablePixels(norm, xCenter, yCenter, thr)
  IN groupOf(holesOfFills(Fills(fillable, fillable, W, H, "n4"), W),
             Pt(Whole(xCenter), Whole(yCenter)), W, H)

\* what detectTargetAndGroup finds in each image
DetectedTargetAndGroup == [im \in Images |-> detectTargetAndGroup(im)]

\* the words of dialText: CENTER for 0
dialText(clicksSigned, negWord, posWord) ==
  IF IsZero(clicksSigned) THEN "CENTER" ELSE IF IsNeg(clicksSigned) THEN negWord ELSE posWord

\* an ok:true response of an image variant: a Success with the status the
\* variant reports; holesUsed is holesDetected, bull is the origin of the POIB
ImageSuccess(computeStatus, w, e, wl, el, poib, holesDetected) ==
  [status |-> 200, ok |-> TRUE, error |-> "", windage |-> w, elevation |-> e,
   windageLabel |-> wl, elevationLabel |-> el, poib |-> poib,
   bull |-> Pt(Whole(0), Whole(0)), holesUsed |-> holesDetected,
   computeStatus |-> computeStatus]

\* the answer for a POIB in inches: the correction is the opposite of the
\* POIB, in clicks
Respond_AlwaysImage(poibX, poibY, inchesPerClick, holesDetected) ==
  ImageSuccess("COMPUTED_FROM_IMAGE",
               round2(QDiv(QNeg(poibX), inchesPerClick)),
               round2(QDiv(QNeg(poibY), inchesPerClick)),
               dialText(round2(QDiv(QNeg(poibX), inchesPerClick)), "LEFT", "RIGHT"),
               dialText(round2(QDiv(QNeg(poibY), inchesPerClick)), "DOWN", "UP"),
               Pt(poibX, poibY), holesDetected)

\* POIB in inches: right +, up + (the pixel y grows downward)
Measure_AlwaysImage(detect, inchesPerClick) ==
  Respond_AlwaysImage(
    QDiv(QSub(detect.groupCenterPx.x, detect.centerPx.x), detect.pixelsPerInch),
    QDiv(QSub(detect.centerPx.y, detect.groupCenterPx.y), detect.pixelsPerInch),
    inchesPerClick, detect.holesDetected)

\* the handler reads targetSizeInches and returns it under "sec"; the POIB is
\* scaled by detect.pixelsPerInch
PostSec_AlwaysImage(body) ==
  IF body.image = NoImage THEN Failure(400, "NO_IMAGE")
  ELSE Measure_AlwaysImage(
         DetectedTargetAndGroup[body.image],
         QMul(QMul(Q(1047, 1000), QDiv(safeNum(body.distanceYards, Whole(100)), Whole(100))),
              safeNum(body.clickValueMoa, Hun(25))))
       @@ [targetSizeInches |-> safeNum(body.targetSizeInches, Whole(23))]

\* the requests to this build: targetSizeInches not sent, 23 or 11.5
Bodies_AlwaysImage ==
  { [image |-> im, distanceYards |-> d, clickValueMoa |-> c, poibX |-> m[1], poibY |-> m[2],
     targetSizeInches |-> t] :
      im \in Images \cup {NoImage}, d \in Distances, c \in ClickValues, m \in ManualPoibs,
      t \in {Absent, Num(2300), Num(1150)} }

(***************************************************************************)
(* part_009: REAL_v1                                                       *)
(***************************************************************************)
toNumberOrDefault(v, def) ==
  IF IsNullish(v) THEN def ELSE IF IsFinite(Number(v)) THEN Number(v) ELSE def

\* Math.round of a rational, as an integer
RoundInt(a) == MathRound(a)[1]

clamp(v, lo, hi) == Max(lo, Min(hi, v))

\* the pixels whose gray is below the threshold taken from the mean
buildDarkMask(img) ==
  LET thr == clamp(RoundInt(QSub(MeanGray(img), Whole(35))), 35, 140)
  IN { i \in 0..(img.w * img.h - 1) : gray(img, i) < thr }

\* the first index of the largest arr[i], start <= i <= end
argMaxInRange(arr, start, end) ==
  CHOOSE i \in start..end :
    /\ \A j \in start..end : arr[j] <= arr[i]
    /\ \A j \in start..(i - 1) : arr[j] < arr[i]

detectFrameAndCenter(mask, w, h) ==
  LET col == [x \in 0..(w - 1) |-> Cardinality({ i \in mask : i % w = x })]
      row == [y \in 0..(h - 1) |-> Cardinality({ i \in mask : i \div w = y })]
      qx == Floor100(w, 25)
      qy == Floor100(h, 25)
      left == argMaxInRange(col, 0, qx)
      right == argMaxInRange(col, w - qx - 1, w - 1)
      top == argMaxInRange(row, 0, qy)
      bottom == argMaxInRange(row, h - qy - 1, h - 1)
      vCenter == argMaxInRange(col, Floor100(w, 35), Floor100(w, 65))
      hCenter == argMaxInRange(row, Floor100(h, 35), Floor100(h, 65))
  IN [edges |-> [xL |-> Min(left, right), xR |-> Max(left, right),
                 yT |-> Min(top, bottom), yB |-> Max(top, bottom)],
      center |-> [xC |-> vCenter, yC |-> hCenter]]

buildHoleCandidateMask(darkMask, w, h, frame, pixelsPerInch) ==
  LET borderBand == Max(4, RoundInt(QMul(pixelsPerInch, Hun(25))))
      crossBand == Max(4, RoundInt(QMul(pixelsPerInch, Hun(25))))
      near(v, line, band) == v >= line - band /\ v <= line + band
  IN { idx \in darkMask :
         ~ \/ near(idx \div w, frame.edges.yT, borderBand)
           \/ near(idx \div w, frame.edges.yB, borderBand)
           \/ near(idx \div w, frame.center.yC, crossBand)
           \/ near(idx % w, frame.edges.xL, borderBand)
           \/ near(idx % w, frame.edges.xR, borderBand)
           \/ near(idx % w, frame.center.xC, crossBand) }

\* area, bounding box and centroid of a fill
BlobOf(px, w) ==
  LET xs == { i % w : i \in px }
      ys == { i \div w : i \in px }
      bw == (CHOOSE m \in xs : \A n \in xs : n <= m) - MinOf(xs) + 1
      bh == (CHOOSE m \in ys : \A n \in ys : n <= m) - MinOf(ys) + 1
  IN [area |-> Cardinality(px), w |-> bw, h |-> bh,
      centroidPx |-> Pt(Q(SumCols(px, w), Cardinality(px)), Q(SumRows(px, w), Cardinality(px)))]

\* the blobs of a list of fills
Blobs(fills, w) == [k \in 1..Len(fills) |-> BlobOf(fills[k], w)]

findBlobs(mask, w, h, pixelsPerInch) ==
  LET minArea == Max(25, RoundInt(QMul(Hun(2), QMul(pixelsPerInch, pixelsPerInch))))
      maxArea == Max(300, RoundInt(QMul(Hun(60), QMul(pixelsPerInch, pixelsPerInch))))
      inner == { i \in mask : i % w \in 1..(w - 2) /\ i \div w \in 1..(h - 2) }
      fills == Fills(inner, mask, w, h, "n8linear")
      all == [k \in 1..Len(fills) |-> BlobOf(fills[k], w)]
      kept == { k \in 1..Len(all) :
                  /\ ~(all[k].area < minArea \/ all[k].area > maxArea)
                  \* aspect = longer side / shorter side, rejected above 3.0
                  /\ ~(Max(all[k].w, all[k].h) > 3 * Min(all[k].w, all[k].h)) }
  IN SelectIdx(all, kept)

\* the square of Math.hypot(a.x - b.x, a.y - b.y): distances are compared
\* by their squares
Dist2(a, b) ==
  QAdd(QMul(QSub(a.x, b.x), QSub(a.x, b.x)), QMul(QSub(a.y, b.y), QSub(a.y, b.y)))

\* ds.sort((a, b) => a.d - b.d), as the indices j in sorted order: the sort
\* is stable, so equal distances keep the order of j
SortedByDistance(ds) ==
  LET n == Len(ds)
      rank == [j \in 1..n |->
                 Cardinality({ m \in 1..n : QLt(ds[m], ds[j]) \/ (ds[m] = ds[j] /\ m < j) }) + 1]
  IN [pos \in 1..n |-> CHOOSE j \in 1..n : rank[j] = pos]

\* for each blob i, all blobs by their distance to i
NeighbourOrders(pts) ==
  [i \in 1..Len(pts) |->
     CHOOSE o \in { SortedByDistance(ds) :
                      ds \in { [j \in 1..Len(pts) |-> Dist2(pts[i], pts[j])] } } : TRUE]

\* a candidate: the selection and the square of its rMax, the largest
\* distance of a selected centroid to the centroid of the selection
Candidate(pts, sel) ==
  CHOOSE cand \in
    { [sel |-> sel,
       rMax2 |-> LET rs == { Dist2(pts[sel[pos]], c) : pos \in 1..Len(sel) }
                 IN CHOOSE r \in rs : \A q \in rs : QLe(q, r)] :
      c \in { computePOIB([pos \in 1..Len(sel) |-> pts[sel[pos]]]) } } : TRUE

\* the first of the candidates with the least rMax: a later candidate
\* replaces the best one only when its rMax is smaller
Tightest(cands) ==
  cands[CHOOSE c \in 1..Len(cands) :
          /\ \A d \in 1..Len(cands) : QLe(cands[c].rMax2, cands[d].rMax2)
          /\ \A d \in 1..(c - 1) : cands[d].rMax2 # cands[c].rMax2]

\* the indices of the blobs selected, as chooseTightCluster lists them
chooseTightCluster(blobs) ==
  LET n == Len(blobs)
      pts == [i \in 1..n |-> blobs[i].centroidPx]
      maxK == Min(7, n)
  IN IF n = 0 THEN <<>>
     ELSE IF n <= 3 THEN [i \in 1..n |-> i]
     ELSE CHOOSE selected \in
            { Tightest(cands).sel :
                cands \in
                  { \* the candidates in the order of the loops: k outer, i inner
                    [c \in 1..((maxK - 2) * n) |->
                       Candidate(pts, SubSeq(orders[1 + ((c - 1) % n)], 1, 3 + (c - 1) \div n))] :
                    orders \in { NeighbourOrders(pts) } } } : TRUE

computePoibFromBlobs(blobs, selectedIdxs, centerPx, pixelsPerInch) ==
  LET c == computePOIB([pos \in 1..Len(selectedIdxs) |-> blobs[selectedIdxs[pos]].centroidPx])
      dxPx == QSub(c.x, Whole(centerPx.xC))
      dyPx == QSub(c.y, Whole(centerPx.yC))
      xIn == QDiv(dxPx, pixelsPerInch)
      yIn == QNeg(QDiv(dyPx, pixelsPerInch))
  IN IF selectedIdxs = <<>> THEN [ok |-> FALSE, poibInches |-> Pt(NaN, NaN)]
     ELSE [ok |-> TRUE, poibInches |-> Pt(round2(xIn), round2(yIn))]

\* steps 1 to 5 of the handler, for a request without targetSizeInches
Detect_009(img) ==
  LET w == img.w
      h == img.h
      targetSizeInches == Whole(23)
      darkMask == buildDarkMask(img)
      frame == detectFrameAndCenter(darkMask, w, h)
      borderPxW == Max(10, frame.edges.xR - frame.edges.xL)
      pixelsPerInch == QDiv(Whole(borderPxW), targetSizeInches)
      holeMask == buildHoleCandidateMask(darkMask, w, h, frame, pixelsPerInch)
      blobs == findBlobs(holeMask, w, h, pixelsPerInch)
      cluster == chooseTightCluster(blobs)
  IN [frame |-> frame, borderPxW |-> borderPxW, pixelsPerInch |-> pixelsPerInch,
      blobs |-> blobs, selected |-> cluster,
      poib |-> computePoibFromBlobs(blobs, cluster, frame.center, pixelsPerInch)]

Detected_009 == [im \in Images |-> Detect_009(im)]

\* the words of dialText in part_009 and in REAL_v4: 0 counts as RIGHT and UP
dialText_009(axisName, clicksSigned) ==
  IF axisName = "windage"
  THEN (IF QLe(Whole(0), clicksSigned) THEN "RIGHT" ELSE "LEFT")
  ELSE (IF QLe(Whole(0), clicksSigned) THEN "UP" ELSE "DOWN")

\* clicks = inches / inchesPerClick, 0 when inchesPerClick is 0
rawClicks(inches, ipc) == IF IsZero(ipc) THEN Whole(0) ELSE QDiv(inches, ipc)

\* the answer for a POIB in inches: the clicks have the sign of the POIB
Respond_009(computeStatus, poibInches, ipc, holesUsed) ==
  ImageSuccess(computeStatus,
               round2(rawClicks(poibInches.x, ipc)), round2(rawClicks(poibInches.y, ipc)),
               dialText_009("windage", round2(rawClicks(poibInches.x, ipc))),
               dialText_009("elevation", round2(rawClicks(poibInches.y, ipc))),
               poibInches, holesUsed)

\* the POIB: the manual one when both poibX and poibY are sent, else the
\* one of the image, (0, 0) when no holes were found
Measure_009(body, detect, ipc) ==
  LET hasManualPoib == ~IsNullish(body.poibX) /\ ~IsNullish(body.poibY)
  IN Respond_009(IF hasManualPoib THEN "MANUAL_POIB_OVERRIDE"
                 ELSE IF ~detect.poib.ok THEN "FAILED_TO_DETECT_HOLES"
                 ELSE "COMPUTED_FROM_IMAGE",
                 IF hasManualPoib
                 THEN Pt(toNumberOrDefault(body.poibX, Whole(0)),
                         toNumberOrDefault(body.poibY, Whole(0)))
                 ELSE IF ~detect.poib.ok THEN Pt(Whole(0), Whole(0))
                 ELSE detect.poib.poibInches,
                 ipc, Len(detect.selected))

PostSec_009(body) ==
  IF body.image = NoImage THEN Failure(400, "NO_FILE")
  ELSE Measure_009(
         body, Detected_009[body.image],
         QMul(QMul(Q(1047, 1000),
                   QDiv(toNumberOrDefault(body.distanceYards, Whole(100)), Whole(100))),
              toNumberOrDefault(body.clickValueMoa, Hun(25))))

(***************************************************************************)
(* server.js, build REAL_v4                                                *)
(***************************************************************************)
\* one neighbour (x, y) of the pixel the BFS dequeued: when inside the border
\* rectangle and not visited it is marked, and enqueued when in the mask.
\* The queue arrays hold cap entries: a write past them is dropped.
VisitNeighbour(st, x, y, inside, width, mask, cap) ==
  IF ~inside \/ (y * width + x) \in st.visited THEN st
  ELSE IF (y * width + x) \notin mask THEN [st EXCEPT !.visited = @ \cup {y * width + x}]
  ELSE [st EXCEPT !.visited = @ \cup {y * width + x},
                  !.q = IF st.tail < cap THEN Append(@, <<x, y>>) ELSE @,
                  !.tail = @ + 1]

\* the BFS loop: while (head < tail).  An entry read past the queue arrays is
\* undefined: it counts for the area, makes the sums NaN (lost) and has no
\* neighbours.
RECURSIVE Bfs(_, _)
Bfs(st, c) ==
  IF st.head >= st.tail THEN st
  ELSE IF st.head >= c.cap
  THEN Bfs([st EXCEPT !.head = @ + 1, !.area = @ + 1, !.lost = TRUE], c)
  ELSE LET cx == st.q[st.head + 1][1]
           cy == st.q[st.head + 1][2]
           s0 == [st EXCEPT !.head = @ + 1, !.area = @ + 1, !.sumX = @ + cx, !.sumY = @ + cy]
           s1 == VisitNeighbour(s0, cx - 1, cy, cx - 1 >= c.xL, c.width, c.mask, c.cap)
           s2 == VisitNeighbour(s1, cx + 1, cy, cx + 1 <= c.xR, c.width, c.mask, c.cap)
           s3 == VisitNeighbour(s2, cx, cy - 1, cy - 1 >= c.yT, c.width, c.mask, c.cap)
           s4 == VisitNeighbour(s3, cx, cy + 1, cy + 1 <= c.yB, c.width, c.mask, c.cap)
       IN Bfs(s4, c)

\* the raster scan over the border rectangle: `todo` are the mask pixels of
\* the rectangle not yet visited; each BFS adds [area, sumX, sumY, lost] and
\* the value of tail at its end (pushed)
RECURSIVE Scan(_, _, _)
Scan(todo, visited, c) ==
  IF todo = {} THEN <<>>
  ELSE LET start == MinOf(todo)
           st == Bfs([q |-> <<<<start % c.width, start \div c.width>>>>, head |-> 0,
                      tail |-> 1, visited |-> visited \cup {start}, area |-> 0,
                      sumX |-> 0, sumY |-> 0, lost |-> FALSE], c)
       IN <<[area |-> st.area, sumX |-> st.sumX, sumY |-> st.sumY, lost |-> st.lost,
             pushed |-> st.tail]>>
          \o Scan(todo \ st.visited, st.visited, c)

\* a stable sort of records by their field area, descending
RECURSIVE SortByAreaDesc(_)
SortByAreaDesc(seq) ==
  IF seq = <<>> THEN <<>>
  ELSE LET m == CHOOSE i \in 1..Len(seq) :
                  /\ \A j \in 1..Len(seq) : seq[i].area >= seq[j].area
                  /\ \A j \in 1..(i - 1) : seq[j].area # seq[i].area
       IN <<seq[m]>> \o SortByAreaDesc(SelectIdx(seq, (1..Len(seq)) \ {m}))

\* the border of the target: the while loops stop at the first (last) column
\* or row with enough dark pixels, or at the far edge of the image
findBorder(width, height, darkCountInCol, darkCountInRow) ==
  LET COL_MIN == Floor100(height, 2)
      ROW_MIN == Floor100(width, 2)
  IN [xL |-> MinOf({ x \in 0..(width - 1) : x = width - 1 \/ darkCountInCol[x] >= COL_MIN }),
      xR |-> -MinOf({ -x : x \in { x \in 0..(width - 1) : x = 0 \/ darkCountInCol[x] >= COL_MIN } }),
      yT |-> MinOf({ y \in 0..(height - 1) : y = height - 1 \/ darkCountInRow[y] >= ROW_MIN }),
      yB |-> -MinOf({ -y : y \in { y \in 0..(height - 1) : y = 0 \/ darkCountInRow[y] >= ROW_MIN } })]

\* the centre of the target: the darkest column and row of the middle band
findCenter(edges, borderW, borderH, darkCountInCol, darkCountInRow) ==
  [bestCX |-> peakIndex(darkCountInCol,
                        QFloor(QAdd(Whole(edges.xL), QMul(Whole(borderW), Hun(35))))[1],
                        QFloor(QAdd(Whole(edges.xL), QMul(Whole(borderW), Hun(65))))[1]),
   bestCY |-> peakIndex(darkCountInRow,
                        QFloor(QAdd(Whole(edges.yT), QMul(Whole(borderH), Hun(35))))[1],
                        QFloor(QAdd(Whole(edges.yT), QMul(Whole(borderH), Hun(65))))[1])]

\* inMask: the dark pixels inside the border and off the bars of the cross
inMask(width, dark, edges, center, BAR_HALF) ==
  { i \in dark :
      /\ i % width >= edges.xL /\ i % width <= edges.xR
      /\ i \div width >= edges.yT /\ i \div width <= edges.yB
      /\ Abs((i % width) - center.bestCX) > BAR_HALF
      /\ Abs((i \div width) - center.bestCY) > BAR_HALF }

\* the blobs of the mask, in the order the scan finds them
scanMask(mask, width, edges) ==
  Scan(mask, {}, [width |-> width, xL |-> edges.xL, xR |-> edges.xR, yT |-> edges.yT,
                  yB |-> edges.yB, mask |-> mask, cap |-> width * 2])

\* the holes: the blobs of 25 to 20000 pixels, in inches from the centre
holesOf(found, center, pixelsPerInch) ==
  SelectIdx([k \in 1..Len(found) |->
               [x |-> round2(QDiv(QSub(IF found[k].lost THEN NaN
                                       ELSE Q(found[k].sumX, found[k].area),
                                       Whole(center.bestCX)), pixelsPerInch)),
                y |-> round2(QDiv(QSub(Whole(center.bestCY),
                                       IF found[k].lost THEN NaN
                                       ELSE Q(found[k].sumY, found[k].area)), pixelsPerInch)),
                area |-> found[k].area]],
            { k \in 1..Len(found) : ~(found[k].area < 25 \/ found[k].area > 20000) })

\* the POIB: the mean of the (at most 12) largest holes, (0, 0) without holes
poibOf(sorted, edges, pixelsPerInch) ==
  [poibInches |-> IF Len(sorted) > 0
                  THEN Pt(round2(computePOIB(SubSeq(sorted, 1, Min(12, Len(sorted)))).x),
                          round2(computePOIB(SubSeq(sorted, 1, Min(12, Len(sorted)))).y))
                  ELSE Pt(Whole(0), Whole(0)),
   holesInches |-> SubSeq(sorted, 1, Min(12, Len(sorted))),
   holeCountUsed |-> Min(12, Len(sorted)),
   edges |-> edges,
   pixelsPerInch |-> pixelsPerInch]

computePoibFromImage(img, targetSizeInches) ==
  LET width == img.w
      height == img.h
      dark == { i \in 0..(width * height - 1) : gray(img, i) < 140 }
      darkCountInCol == [x \in 0..(width - 1) |-> Cardinality({ i \in dark : i % width = x })]
      darkCountInRow == [y \in 0..(height - 1) |-> Cardinality({ i \in dark : i \div width = y })]
      edges == findBorder(width, height, darkCountInCol, darkCountInRow)
      borderW == Max(1, edges.xR - edges.xL)
      borderH == Max(1, edges.yB - edges.yT)
      pixelsPerInch == QDiv(QAdd(QDiv(Whole(borderW), targetSizeInches),
                                 QDiv(Whole(borderH), targetSizeInches)), Whole(2))
      center == findCenter(edges, borderW, borderH, darkCountInCol, darkCountInRow)
      BAR_HALF == Max(6, Floor100(borderW, 1))
      found == scanMask(inMask(width, dark, edges, center, BAR_HALF), width, edges)
  IN poibOf(SortByAreaDesc(holesOf(found, center, pixelsPerInch)), edges, pixelsPerInch)
     @@ [width |-> width, fills |-> found]

\* what computePoibFromImage finds in each image, for the default target size
Detected_v4 == [im \in Images |-> computePoibFromImage(im, Whole(23))]

\* targets with one mark: a 5 x 5 hole, and an 11 x 11 mark of 121 pixels
QueueImages ==
  { Image(Side, Side, Frame \cup Cross \cup Shot(8, 8)),
    Image(Side, Side, Frame \cup Cross \cup Rect(Side, 3, 13, 3, 13)) }

\* the answer for a POIB in inches: the correction is the opposite of the
\* POIB, in clicks
Respond_v4(computeStatus, poibInches, ipc, holesUsed) ==
  ImageSuccess(computeStatus,
               round2(rawClicks(QNeg(poibInches.x), ipc)),
               round2(rawClicks(QNeg(poibInches.y), ipc)),
               dialText_009("windage", round2(rawClicks(QNeg(poibInches.x), ipc))),
               dialText_009("elevation", round2(rawClicks(QNeg(poibInches.y), ipc))),
               poibInches, holesUsed)

\* the POIB: the manual one when both poibX and poibY are sent, else the
\* one of the image
Measure_v4(body, r, ipc) ==
  LET hasManual == ~IsNullish(body.poibX) /\ ~IsNullish(body.poibY)
  IN Respond_v4(IF hasManual THEN "MANUAL_POIB_OVERRIDE" ELSE "COMPUTED_FROM_IMAGE",
                IF hasManual
                THEN Pt(round2(toNumberOrDefault(body.poibX, Whole(0))),
                        round2(toNumberOrDefault(body.poibY, Whole(0))))
                ELSE r.poibInches,
                ipc, IF hasManual THEN 0 ELSE r.holeCountUsed)

PostSec_v4(body) ==
  IF body.image = NoImage THEN Failure(400, "NO_FILE")
  ELSE Measure_v4(
         body, Detected_v4[body.image],
         QMul(QMul(Q(1047, 1000),
                   QDiv(toNumberOrDefault(body.distanceYards, Whole(100)), Whole(100))),
              toNumberOrDefault(body.clickValueMoa, Hun(25))))

(***************************************************************************)
(* server.js, build BULL_LOCKED_V2                                         *)
(***************************************************************************)
\* a targetSizeSpec, by the numbers its text holds between the "x"s: <<>>
\* is the empty text, <<n>> a single number, <<w, h>> the text "wxh"
TargetSpecs == { <<>>, <<Whole(23)>>, <<Whole(11)>>, <<Q(17, 2), Whole(11)>> }

BullLockedBodies ==
  { [image |-> im, distanceYards |-> d, clickValueMoa |-> c, targetSizeSpec |-> t] :
      im \in Images \cup {NoImage}, d \in Distances, c \in ClickValues, t \in TargetSpecs }

inchesPerMoaAtYards(yards) ==
  IF ~IsFinite(yards) \/ QLe(yards, Whole(0)) THEN NaN
  ELSE QMul(Q(1047, 1000), QDiv(yards, Whole(100)))

parseTargetSpec(parts) ==
  LET bad == [ok |-> FALSE, widthIn |-> NaN, heightIn |-> NaN]
  IN IF parts = <<>> THEN bad
     ELSE IF Len(parts) > 1
     THEN IF Len(parts) # 2 \/ ~IsFinite(parts[1]) \/ ~IsFinite(parts[2]) THEN bad
          ELSE IF QLe(parts[1], Whole(0)) \/ QLe(parts[2], Whole(0)) THEN bad
          ELSE [ok |-> TRUE, widthIn |-> parts[1], heightIn |-> parts[2]]
     ELSE IF ~IsFinite(parts[1]) \/ QLe(parts[1], Whole(0)) THEN bad
     \* "11" is shorthand for 8.5x11
     ELSE IF parts[1] = Whole(11) THEN [ok |-> TRUE, widthIn |-> Q(17, 2), heightIn |-> Whole(11)]
     ELSE [ok |-> TRUE, widthIn |-> parts[1], heightIn |-> parts[1]]

\* the fill of detectHoles, pixel by pixel in the order of its stack: st
\* holds the stack, the pixels marked visited, the pixels counted (area,
\* sums and bounding box are theirs) and whether the fill was cut off
push_detectHoles(st, nk, inside, mask) ==
  IF ~inside \/ nk \notin mask \/ nk \in st.visited THEN st
  ELSE [st EXCEPT !.visited = @ \cup {nk}, !.stack = Append(@, nk)]

pop_detectHoles(st, c) ==
  [st EXCEPT !.stack = SubSeq(@, 1, Len(@) - 1), !.counted = @ \cup {c}, !.area = @ + 1]

\* "cap runaway blobs": area > maxArea * 3
cap_detectHoles(st) ==
  IF st.area > 5000 * 3 THEN [st EXCEPT !.stack = <<>>, !.capped = TRUE] ELSE st

\* one turn of while (stack.length), for the pixel c = (cx, cy) popped
turn_detectHoles(st, c, cx, cy, w, h, mask) ==
  cap_detectHoles(
    push_detectHoles(push_detectHoles(push_detectHoles(push_detectHoles(
    push_detectHoles(push_detectHoles(push_detectHoles(push_detectHoles(
      pop_detectHoles(st, c),
      c - w - 1, cx - 1 > 0 /\ cy - 1 > 0, mask),
      c - w, cy - 1 > 0, mask),
      c - w + 1, cx + 1 < w - 1 /\ cy - 1 > 0, mask),
      c - 1, cx - 1 > 0, mask),
      c + 1, cx + 1 < w - 1, mask),
      c + w - 1, cx - 1 > 0 /\ cy + 1 < h - 1, mask),
      c + w, cy + 1 < h - 1, mask),
      c + w + 1, cx + 1 < w - 1 /\ cy + 1 < h - 1, mask))

\* n turns of the loop; a finished loop stays as it is
RECURSIVE turns_detectHoles(_, _, _, _, _)
turns_detectHoles(st, n, w, h, mask) ==
  IF st.stack = <<>> THEN st
  ELSE IF n <= 1
  THEN turn_detectHoles(st, st.stack[Len(st.stack)], st.stack[Len(st.stack)] % w,
                        st.stack[Len(st.stack)] \div w, w, h, mask)
  ELSE turns_detectHoles(turns_detectHoles(st, n \div 2, w, h, mask), n - n \div 2, w, h, mask)

fill_detectHoles(start, visited, w, h, mask) ==
  turns_detectHoles([stack |-> <<start>>, visited |-> visited \cup {start}, counted |-> {},
                     area |-> 0, capped |-> FALSE], w * h, w, h, mask)

\* the fills of the raster scan over the pixels inside the border, in its order
RECURSIVE stackFills(_, _, _, _)
stackFills(visited, inner, w, h) ==
  IF inner \ visited = {} THEN <<>>
  ELSE LET fill == fill_detectHoles(MinOf(inner \ visited), visited, w, h, inner)
       IN <<fill>> \o stackFills(fill.visited, inner, w, h)

\* the pixels each fill counted.  An image of at most 15000 pixels has no
\* fill that is cut off: each fill counts a whole 8-connected component.
RECURSIVE countedOf(_)
countedOf(fills) ==
  IF fills = <<>> THEN <<>> ELSE <<Head(fills).counted>> \o countedOf(Tail(fills))

countedFills(inner, w, h) ==
  IF w * h > 5000 * 3
  THEN countedOf(stackFills({}, inner, w, h))
  ELSE Fills(inner, inner, w, h, "n8")

\* a fill whose area is out of range is dropped before its box is measured
sized_detectHoles(fills) ==
  SelectIdx(fills, { k \in 1..Len(fills) :
                       ~(Cardinality(fills[k]) < 25 \/ Cardinality(fills[k]) > 5000) })

\* aspect = longer side / shorter side, rejected above 5; the holes are
\* sorted by area, largest first, and at most 30 are returned
holes_detectHoles(all) ==
  SortByAreaDesc(SelectIdx(all, { k \in 1..Len(all) :
                    ~(Max(all[k].w, all[k].h) > 5 * Min(all[k].w, all[k].h)) }))

found_detectHoles(w, h, holes) ==
  [ok |-> TRUE, normalized |-> [width |-> w, height |-> h],
   holesDetected |-> Min(30, Len(holes)), holes |-> SubSeq(holes, 1, Min(30, Len(holes)))]

\* An image no longer than 1400 px keeps its size (scale = 1).  The fills
\* start and spread inside the 1-pixel border only.
detectHoles(img) ==
  IF img.w = 0 \/ img.h = 0
  THEN [ok |-> FALSE, normalized |-> [width |-> img.w, height |-> img.h],
        holesDetected |-> 0, holes |-> <<>>]
  ELSE found_detectHoles(img.w, img.h,
         holes_detectHoles(Blobs(sized_detectHoles(
           countedFills({ i \in { j \in 0..(img.w * img.h - 1) : gray(img, j) < 70 } :
                            i % img.w \in 1..(img.w - 2) /\ i \div img.w \in 1..(img.h - 2) },
                        img.w, img.h)), img.w)))

\* what detectHoles finds in each image
DetectedHoles == [im \in Images |-> detectHoles(im)]

\* inchesPerClick ? round2(delta / inchesPerClick) : 0 -- NaN and 0 are falsy
clicksOrZero(delta, inchesPerClick) ==
  IF inchesPerClick # NaN /\ ~IsZero(inchesPerClick)
  THEN round2Safe(QDiv(delta, inchesPerClick)) ELSE Whole(0)

\* what computeBullLocked returns
bullLockedResult(xIn, yIn, bull, windageClicksSigned, elevationClicksSigned) ==
  [bull |-> bull,
   poibInches |-> Pt(QSub(xIn, bull.x), QSub(bull.y, yIn)),
   clicksSigned |-> [w |-> windageClicksSigned, e |-> elevationClicksSigned],
   windDir |-> dialText(windageClicksSigned, "LEFT", "RIGHT"),
   elevDir |-> dialText(elevationClicksSigned, "DOWN", "UP")]

computeBullLocked(holes, normalized, widthIn, heightIn, distanceYards, clickValueMoa) ==
  LET centroids == [k \in 1..Len(holes) |-> holes[k].centroidPx]
      xIn == QMul(QDiv(QDiv(SumX(centroids), Whole(Len(holes))), Whole(normalized.width)),
                  widthIn)
      yIn == QMul(QDiv(QDiv(SumY(centroids), Whole(Len(holes))), Whole(normalized.height)),
                  heightIn)
      bull == Pt(QDiv(widthIn, Whole(2)), QDiv(heightIn, Whole(2)))
      inchesPerClick == QMul(inchesPerMoaAtYards(distanceYards), clickValueMoa)
  IN bullLockedResult(xIn, yIn, bull,
                      \* dxIn = bull.x - xIn; dyIn = bull.y - yIn, negated for elevation
                      clicksOrZero(QSub(bull.x, xIn), inchesPerClick),
                      clicksOrZero(QNeg(QSub(bull.y, yIn)), inchesPerClick))

\* the ok:true answer of the handler
Answer_BullLocked(bullLocked, holesDetected) ==
  [ImageSuccess("COMPUTED_FROM_IMAGE", bullLocked.clicksSigned.w, bullLocked.clicksSigned.e,
                bullLocked.windDir, bullLocked.elevDir, bullLocked.poibInches, holesDetected)
     EXCEPT !.bull = bullLocked.bull]

\* the handler once it has the file: the target size, then the holes
Respond_BullLocked(parsed, detect, distanceYards, clickValueMoa) ==
  IF ~parsed.ok THEN Failure(400, "BAD_TARGET_SPEC")
  ELSE IF ~detect.ok THEN Failure(422, "DETECT_FAILED")
  ELSE IF Len(detect.holes) < 1 THEN Failure(422, "HOLES_NOT_FOUND")
  ELSE Answer_BullLocked(
         computeBullLocked(detect.holes, detect.normalized, parsed.widthIn, parsed.heightIn,
                           distanceYards, clickValueMoa),
         detect.holesDetected)

PostSec_BullLocked(body) ==
  IF body.image = NoImage THEN Failure(400, "NO_IMAGE")
  ELSE Respond_BullLocked(parseTargetSpec(body.targetSizeSpec), DetectedHoles[body.image],
                          safeNum(body.distanceYards, Whole(100)),
                          safeNum(body.clickValueMoa, Hun(25)))

(***************************************************************************)
(* part_003: BULL_LOGIC_LOCKED_V1                                          *)
(***************************************************************************)
\* the side of the square fiducial targets
FidSide == 60

\* the four black corner squares, 15 x 15
Fiducials ==
  Rect(FidSide, 0, 14, 0, 14) \cup Rect(FidSide, FidSide - 15, FidSide - 1, 0, 14)
    \cup Rect(FidSide, 0, 14, FidSide - 15, FidSide - 1)
    \cup Rect(FidSide, FidSide - 15, FidSide - 1, FidSide - 15, FidSide - 1)

\* an 11 x 11 mark with its corner at (x, y)
Mark(x, y) == Rect(FidSide, x, x + 10, y, y + 10)

FiducialImages ==
  { Image(FidSide, FidSide, {}),
    Image(FidSide, FidSide, Fiducials),
    Image(FidSide, FidSide, Fiducials \cup Mark(18, 20)),
    Image(FidSide, FidSide, Fiducials \cup Mark(33, 30)) }

TargetSizes == { Absent, Num(2300) }

Bodies_003 ==
  { [image |-> im, distanceYards |-> d, clickValueMoa |-> c, targetSizeInches |-> t] :
      im \in FiducialImages \cup {NoImage}, d \in Distances, c \in ClickValues,
      t \in TargetSizes }

num(v, dflt) == IF IsFinite(Number(v)) THEN Number(v) ELSE dflt

\* True MOA, with no guard on the distance
inchesPerMoaAtYards_003(yards) == QMul(Q(1047, 1000), QDiv(yards, Whole(100)))

\* the 8-connected components of a mask in raster order, each with its area,
\* bounding box and centroid
findComponents(mask, w, h) ==
  LET fills == Fills(mask, mask, w, h, "n8")
  IN [k \in 1..Len(fills) |->
        LET px == fills[k]
            xs == { i % w : i \in px }
            ys == { i \div w : i \in px }
            x0 == MinOf(xs)
            x1 == CHOOSE m \in xs : \A n \in xs : n <= m
            y0 == MinOf(ys)
            y1 == CHOOSE m \in ys : \A n \in ys : n <= m
        IN [area |-> Cardinality(px),
            bbox |-> [x0 |-> x0, y0 |-> y0, x1 |-> x1, y1 |-> y1,
                      w |-> x1 - x0 + 1, h |-> y1 - y0 + 1],
            c |-> Pt(Q(SumCols(px, w), Cardinality(px)), Q(SumRows(px, w), Cardinality(px)))]]

\* the candidate nearest to a corner: the first of the least squared distance
NearestTo(candidates, corner) ==
  LET d2(k) == QAdd(QMul(QSub(candidates[k].c.x, Whole(corner[1])),
                         QSub(candidates[k].c.x, Whole(corner[1]))),
                    QMul(QSub(candidates[k].c.y, Whole(corner[2])),
                         QSub(candidates[k].c.y, Whole(corner[2]))))
  IN candidates[CHOOSE k \in 1..Len(candidates) :
                  /\ \A j \in 1..Len(candidates) : QLe(d2(k), d2(j))
                  /\ \A j \in 1..(k - 1) : d2(j) # d2(k)]

\* the centre of the four fiducials picked: tl, tr, bl, br
centerOfFiducials(picked) ==
  [found |-> TRUE,
   centerPx |-> Pt(QDiv(SumX(<<picked[1].c, picked[2].c, picked[3].c, picked[4].c>>), Whole(4)),
                   QDiv(SumY(<<picked[1].c, picked[2].c, picked[3].c, picked[4].c>>), Whole(4))),
   fiducials |-> picked]

\* the fiducials: of the square components, the nearest to each corner
pickFiducials(candidates, w, h) ==
  IF Len(candidates) < 4
  THEN [found |-> FALSE, centerPx |-> Pt(NaN, NaN), fiducials |-> <<>>]
  ELSE centerOfFiducials(<<NearestTo(candidates, <<0, 0>>), NearestTo(candidates, <<w - 1, 0>>),
                           NearestTo(candidates, <<0, h - 1>>),
                           NearestTo(candidates, <<w - 1, h - 1>>)>>)

estimateCenterFromFiducials(comps, w, h) ==
  pickFiducials(SelectIdx(comps, { k \in 1..Len(comps) :
                  \* 0.6 < bw / bh < 1.4
                  /\ 10 * comps[k].bbox.w > 6 * comps[k].bbox.h
                  /\ 10 * comps[k].bbox.w < 14 * comps[k].bbox.h
                  /\ comps[k].area > 200 }), w, h)

\* Three points or fewer are averaged.  With four or more the code averages
\* the tightest 70 %; the images here hold fewer marks.
tightClusterAverage(points) ==
  [x |-> QDiv(SumX(points), Whole(Len(points))),
   y |-> QDiv(SumY(points), Whole(Len(points))),
   used |-> Len(points)]

\* An image of fewer than 100000 pixels is sampled at every pixel, so the
\* threshold comes from its mean gray.
\* the components that pass for bullet holes, by area, size, shape and
\* distance from the edge of the image
holeComponents(comps, w, h) ==
  SelectIdx(comps, { k \in 1..Len(comps) :
    /\ comps[k].area >= 120 /\ comps[k].area <= 12000
    /\ comps[k].bbox.w >= 6 /\ comps[k].bbox.h >= 6
    \* 0.25 < bw / bh < 4.0
    /\ 4 * comps[k].bbox.w > comps[k].bbox.h
    /\ comps[k].bbox.w < 4 * comps[k].bbox.h
    /\ QLt(Whole(10), comps[k].c.x) /\ QLt(comps[k].c.x, Whole(w - 10))
    /\ QLt(Whole(10), comps[k].c.y) /\ QLt(comps[k].c.y, Whole(h - 10)) })

detectHolesFromImage(img, excludeBoxes) ==
  LET w == img.w
      h == img.h
      thr == clamp(RoundInt(QSub(MeanGray(img), Whole(45))), 40, 200)
      inExcluded(i) == \E n \in 1..Len(excludeBoxes) :
                         /\ i % w >= excludeBoxes[n].x0 /\ i % w <= excludeBoxes[n].x1
                         /\ i \div w >= excludeBoxes[n].y0 /\ i \div w <= excludeBoxes[n].y1
      mask == { i \in 0..(w * h - 1) : ~inExcluded(i) /\ gray(img, i) < thr }
  IN [holes |-> holeComponents(findComponents(mask, w, h), w, h), thresholdUsed |-> thr]

bullDialFromPoib(poibX, poibY) ==
  LET eps == Q(1, 1000000)
  IN [windDir |-> IF QLt(eps, poibX) THEN "LEFT"
                  ELSE IF QLt(poibX, QNeg(eps)) THEN "RIGHT" ELSE "CENTER",
      elevDir |-> IF QLt(eps, poibY) THEN "DOWN"
                  ELSE IF QLt(poibY, QNeg(eps)) THEN "UP" ELSE "CENTER"]

\* the centre of the group: the handler answers HOLES_NOT_FOUND before it
\* averages an empty list
groupCenterOf(holes) ==
  IF holes = <<>> THEN [x |-> NaN, y |-> NaN, used |-> 0]
  ELSE tightClusterAverage([k \in 1..Len(holes) |-> holes[k].c])

\* the holes outside the boxes of the fiducials; none are looked for when the
\* fiducials were not found
holesOutside(img, centerInfo) ==
  IF ~centerInfo.found THEN <<>>
  ELSE detectHolesFromImage(img, <<centerInfo.fiducials[1].bbox, centerInfo.fiducials[2].bbox,
                                   centerInfo.fiducials[3].bbox, centerInfo.fiducials[4].bbox>>).holes

Detection_003(centerInfo, holes) ==
  [centerInfo |-> centerInfo, holes |-> holes, groupCenterPx |-> groupCenterOf(holes)]

fiducialsOf(img, fidThr) ==
  estimateCenterFromFiducials(
    findComponents({ i \in 0..(img.w * img.h - 1) : gray(img, i) < fidThr }, img.w, img.h),
    img.w, img.h)

centerInfoOf(img) == fiducialsOf(img, clamp(RoundInt(QSub(MeanGray(img), Whole(70))), 20, 160))

\* the part of the handler that reads the image only: fiducials, then holes
Detect_003(img) == Detection_003(centerInfoOf(img), holesOutside(img, centerInfoOf(img)))

Detected_003 == [im \in FiducialImages |-> Detect_003(im)]

\* the answer of the handler to a request with an image, given what was
\* detected in the image
Respond_003(detect, poibX, poibY, inchesPerClick) ==
  IF ~detect.centerInfo.found THEN Failure(200, "FIDUCIALS_NOT_FOUND")
  ELSE IF detect.holes = <<>> THEN Failure(200, "HOLES_NOT_FOUND")
  ELSE ImageSuccess("COMPUTED_FROM_IMAGE",
                    round2Safe(QDiv(QNeg(poibX), inchesPerClick)),
                    round2Safe(QDiv(QNeg(poibY), inchesPerClick)),
                    bullDialFromPoib(poibX, poibY).windDir, bullDialFromPoib(poibX, poibY).elevDir,
                    Pt(poibX, poibY), Len(detect.holes))

\* POIB in inches: X right +, Y up + (the pixel Y is flipped once)
Measure_003(detect, pixelsPerInch, inchesPerClick) ==
  Respond_003(detect,
              QDiv(QSub(detect.groupCenterPx.x, detect.centerInfo.centerPx.x), pixelsPerInch),
              QNeg(QDiv(QSub(detect.groupCenterPx.y, detect.centerInfo.centerPx.y),
                        pixelsPerInch)),
              inchesPerClick)

PostSec_003(body) ==
  IF body.image = NoImage THEN Failure(400, "NO_IMAGE")
  ELSE Measure_003(Detected_003[body.image],
                   QDiv(Whole(Max(body.image.w, body.image.h)),
                        num(body.targetSizeInches, Whole(11))),
                   QMul(inchesPerMoaAtYards_003(num(body.distanceYards, Whole(100))),
                        num(body.clickValueMoa, Hun(25))))

(***************************************************************************)
(* part_013, second server: SEC_BACKEND_WINDAGE_LOCK_v1.  The image is     *)
(* measured by computeFromImage; its result, the offset of the POIB from   *)
(* the bull in inches (x right, y down) or null when no hole was found, is *)
(* an input of the model.                                                  *)
(***************************************************************************)
\* inchesPerClick: true MOA, 1.047 in at 100 yd
inchesPerClick(distanceYards, clickValueMoa) ==
  QMul(QMul(QDiv(distanceYards, Whole(100)), Q(1047, 1000)), clickValueMoa)

\* the direction words exchanged: posWord below zero, negWord above it
dialDirExchanged(offset, negWord, posWord) ==
  IF IsNeg(offset) THEN posWord ELSE IF IsPos(offset) THEN negWord ELSE "CENTER"

\* the direction word of an offset: negWord below zero, posWord above it
dialDir(offset, negWord, posWord) ==
  IF IsNeg(offset) THEN negWord ELSE IF IsPos(offset) THEN posWord ELSE "CENTER"

\* the signed clicks of a direction word
dialSigned(dir, clicks, plusWord, minusWord) ==
  IF dir = plusWord THEN clicks ELSE IF dir = minusWord THEN QNeg(clicks) ELSE Whole(0)

\* computeDialFromOffsets; a dial text is its direction word and its clicks
computeDialFromOffsets(dxIn, dyIn, distanceYards, clickValueMoa) ==
  [clicksSigned |->
     [windage |-> dialSigned(dialDir(dxIn, "RIGHT", "LEFT"),
                             round2(QDiv(QAbs(dxIn), inchesPerClick(distanceYards, clickValueMoa))),
                             "RIGHT", "LEFT"),
      elevation |-> dialSigned(dialDir(dyIn, "DOWN", "UP"),
                               round2(QDiv(QAbs(dyIn), inchesPerClick(distanceYards, clickValueMoa))),
                               "UP", "DOWN")],
   dial |->
     [windage |-> IF dialDir(dxIn, "RIGHT", "LEFT") = "CENTER" THEN <<"CENTER", Whole(0)>>
                  ELSE <<dialDir(dxIn, "RIGHT", "LEFT"),
                         round2(QDiv(QAbs(dxIn), inchesPerClick(distanceYards, clickValueMoa)))>>,
      elevation |-> IF dialDir(dyIn, "DOWN", "UP") = "CENTER" THEN <<"CENTER", Whole(0)>>
                    ELSE <<dialDir(dyIn, "DOWN", "UP"),
                           round2(QDiv(QAbs(dyIn), inchesPerClick(distanceYards, clickValueMoa)))>>]]

\* what computeFromImage measured: null (no holes), or poibInches in hundredths
NoPoib == <<>>

OffsetValues == { -150, -1, 0, 150 }

Measurements_WindageLock ==
  { NoPoib } \cup { <<Pt(Hun(x), Hun(y))>> : x \in OffsetValues, y \in OffsetValues }

LockDistances == { Absent, Num(10000), Num(100000), Num(0), Num(-10000) }

Bodies_WindageLock ==
  { [image |-> i, distanceYards |-> d, clickValueMoa |-> c] :
      i \in BOOLEAN, d \in LockDistances, c \in ClickValues }

Respond_WindageLock(distanceYards, clickValueMoa, base) ==
  IF base = NoPoib
  THEN [status |-> 200, ok |-> TRUE, error |-> "",
        sec |-> [distanceYards |-> distanceYards, clickValueMoa |-> clickValueMoa],
        computeStatus |-> "NO_HOLES_DETECTED", poibInches |-> NoPoib,
        clicksSigned |-> [windage |-> Whole(0), elevation |-> Whole(0)],
        dial |-> [windage |-> <<"CENTER", Whole(0)>>, elevation |-> <<"CENTER", Whole(0)>>]]
  ELSE [status |-> 200, ok |-> TRUE, error |-> "",
        sec |-> [distanceYards |-> distanceYards, clickValueMoa |-> clickValueMoa],
        computeStatus |-> "COMPUTED_FROM_IMAGE", poibInches |-> base,
        clicksSigned |->
          computeDialFromOffsets(base[1].x, base[1].y, distanceYards, clickValueMoa).clicksSigned,
        dial |-> computeDialFromOffsets(base[1].x, base[1].y, distanceYards, clickValueMoa).dial]

PostSec_WindageLock(body, base) ==
  IF ~body.image THEN Failure(400, "Missing multipart field: image")
  ELSE Respond_WindageLock(
         IF IsNullish(body.distanceYards) THEN Whole(100) ELSE Number(body.distanceYards),
         IF IsNullish(body.clickValueMoa) THEN Hun(25) ELSE Number(body.clickValueMoa),
         base)

(***************************************************************************)
(* part_000, first server: POIB_TO_BULL_YDOWN_LOCKED_V3.  round2 adds      *)
(* Number.EPSILON before it rounds, which exact arithmetic does not see.   *)
(***************************************************************************)
labelSigned(value, posLabel, negLabel) ==
  IF IsPos(value) THEN posLabel ELSE IF IsNeg(value) THEN negLabel ELSE "HOLD"

\* a hole the handler accepts: an object whose x and y are finite numbers
HoleIsNumeric(h) ==
  h.obj /\ h.x.t = "num" /\ h.y.t = "num" /\ IsFinite(h.x.v) /\ IsFinite(h.y.v)

\* the response: clicksSigned carries windageClicksAbs and elevationClicksAbs
Respond_000(poib, bull, dxDb, dyDb, ips, clickValueMoa, used) ==
  Success(round2(QAbs(QDiv(QDiv(dxDb, ips), clickValueMoa))),
          round2(QAbs(QDiv(QDiv(dyDb, ips), clickValueMoa))),
          labelSigned(dxDb, "RIGHT", "LEFT"), labelSigned(dyDb, "DOWN", "UP"),
          poib, bull, used)

\* correction = bull - POIB, zeroed within the deadband
Correct_000(poib, bull, deadbandIn, ips, clickValueMoa, used) ==
  Respond_000(poib, bull,
              IF QLe(QAbs(QSub(bull.x, poib.x)), deadbandIn) THEN Whole(0) ELSE QSub(bull.x, poib.x),
              IF QLe(QAbs(QSub(bull.y, poib.y)), deadbandIn) THEN Whole(0) ELSE QSub(bull.y, poib.y),
              ips, clickValueMoa, used)

PostSec_000(body) ==
  IF body.holes = <<>> THEN Failure(400, "NO_HOLES")
  ELSE IF \E i \in 1..Len(body.holes) : ~HoleIsNumeric(body.holes[i])
  THEN Failure(400, "BAD_HOLES")
  ELSE IF ~IsFinite(Number(body.bullX)) \/ ~IsFinite(Number(body.bullY))
  THEN Failure(400, "BAD_BULL")
  ELSE Correct_000(computePOIB(CleanHoles(body.holes)),
                   Pt(Number(body.bullX), Number(body.bullY)),
                   IF IsNullish(body.deadband) THEN Whole(0) ELSE Number(body.deadband),
                   inchesPerMOA(IF IsNullish(body.distanceYards) THEN Whole(100)
                                ELSE Number(body.distanceYards)),
                   IF IsNullish(body.clickValueMoa) THEN Hun(25) ELSE Number(body.clickValueMoa),
                   Len(body.holes))

(***************************************************************************)
(* part_012: the gateway BULL_LOCKED_V5.  The request states its target    *)
(* size in targetSizeInches (no targetSizeSpec, widthIn or heightIn).  The *)
(* engine module is not part of the repository: whether one was loaded,    *)
(* and what it does with a request, is an input of the model.  The file is *)
(* in strict mode: an assignment to a property of null, of undefined or of *)
(* a primitive value throws a TypeError.                                   *)
(***************************************************************************)
toNum(v) == IF v.t = "num" /\ IsFinite(v.v) THEN v.v ELSE NaN

\* clicksSigned as an engine may return it: missing, or windage and elevation
NoClicks == [given |-> FALSE, windage |-> Absent, elevation |-> Absent]

Clicks(w, e) == [given |-> TRUE, windage |-> w, elevation |-> e]

\* what the engine did: kind "none" (no module loaded), "throws", "null"
\* (returned null or undefined), "primitive" (a number, a string, a boolean)
\* or "object" with its clicksSigned
EngineOutcomes ==
  { [kind |-> k, clicksSigned |-> NoClicks] : k \in {"none", "throws", "null", "primitive", "object"} }
  \cup
  { [kind |-> "object", clicksSigned |-> Clicks(w, e)] :
      w \in {Num(138), Num(0), Text, Absent}, e \in {Num(-262), Text, Null} }

\* engineOut: the stub, the ENGINE_ERROR object, or what the engine returned
engineOutOf(outcome) ==
  IF outcome.kind = "none"
  THEN [kind |-> "object", computeStatus |-> "ENGINE_STUB",
        clicksSigned |-> Clicks(Num(0), Num(0))]
  ELSE IF outcome.kind = "throws"
  THEN [kind |-> "object", computeStatus |-> "ENGINE_ERROR", clicksSigned |-> NoClicks]
  ELSE [kind |-> outcome.kind, computeStatus |-> "OK", clicksSigned |-> outcome.clicksSigned]

\* the engine gave numeric clicksSigned
hasNumericClicks(engineOut) ==
  /\ engineOut.kind = "object" /\ engineOut.clicksSigned.given
  /\ IsFinite(toNum(engineOut.clicksSigned.windage))
  /\ IsFinite(toNum(engineOut.clicksSigned.elevation))

Answer_012(loaded, computeStatus, clicksSigned) ==
  [status |-> 200, ok |-> TRUE, error |-> "", computeStatus |-> computeStatus,
   clicksSigned |-> clicksSigned, clicks |-> signedToDirections(clicksSigned),
   engine |-> IF loaded THEN "LOADED" ELSE "STUB"]

\* "Ensure clicksSigned ALWAYS exists and is numeric", then the response
Respond_012(loaded, engineOut) ==
  IF hasNumericClicks(engineOut)
  THEN Answer_012(loaded, engineOut.computeStatus,
                  [windage |-> round2(toNum(engineOut.clicksSigned.windage)),
                   elevation |-> round2(toNum(engineOut.clicksSigned.elevation))])
  ELSE IF engineOut.kind # "object" THEN Failure(500, "SERVER_ERROR")
  ELSE Answer_012(loaded, engineOut.computeStatus,
                  [windage |-> Whole(0), elevation |-> Whole(0)])

Bodies_012 ==
  { [image |-> i, targetSizeInches |-> t] :
      i \in BOOLEAN, t \in {Absent, Text, Num(0), Num(1100), Num(2300)} }

PostSec_012(body, outcome) ==
  IF ~body.image THEN Failure(400, "NO_IMAGE")
  ELSE IF ~IsFinite(toNum(body.targetSizeInches)) \/ QLe(toNum(body.targetSizeInches), Whole(0))
  THEN Failure(400, "BAD_TARGET_SIZE")
  ELSE Respond_012(outcome.kind # "none", engineOutOf(outcome))

(***************************************************************************)
(* part_008, first server: POIB Anchor Clean with yAxis.  A target size    *)
(* text is given by the numbers the pattern ^(\d+(\.\d+)?)[x]...$ finds in *)
(* it: <<a, b>> for "axb", anything else for a text that does not match.   *)
(* yAxis "" is a request without yAxis.  NotObj stands for a null element  *)
(* of holes[], whose h.x throws.                                           *)
(***************************************************************************)
parseNumber(v, fallback) == IF IsFinite(Number(v)) THEN Number(v) ELSE fallback

NoSize == [ok |-> FALSE, widthIn |-> NaN, heightIn |-> NaN]

\* part_008: width is the smaller number, height the larger
parseTargetSizeSpec(parts) ==
  IF Len(parts) # 2 THEN NoSize
  ELSE IF ~IsFinite(parts[1]) \/ ~IsFinite(parts[2]) THEN NoSize
  ELSE [ok |-> TRUE,
        widthIn |-> IF QLt(parts[2], parts[1]) THEN parts[2] ELSE parts[1],
        heightIn |-> IF QLt(parts[1], parts[2]) THEN parts[2] ELSE parts[1]]

\* part_014: width and height in the order of the text
parseSizeSpec(parts) ==
  IF Len(parts) # 2 THEN NoSize
  ELSE IF ~IsFinite(parts[1]) \/ ~IsFinite(parts[2]) THEN NoSize
  ELSE [ok |-> TRUE, widthIn |-> parts[1], heightIn |-> parts[2]]

RECURSIVE normalizeHolesToYUp(_, _, _)
normalizeHolesToYUp(holes, heightIn, yAxis) ==
  IF holes = <<>> THEN <<>>
  ELSE IF ~HoleIsValid(holes[Len(holes)])
  THEN normalizeHolesToYUp(SubSeq(holes, 1, Len(holes) - 1), heightIn, yAxis)
  ELSE Append(normalizeHolesToYUp(SubSeq(holes, 1, Len(holes) - 1), heightIn, yAxis),
              Pt(Number(holes[Len(holes)].x),
                 IF yAxis = "down" THEN QSub(heightIn, Number(holes[Len(holes)].y))
                 ELSE Number(holes[Len(holes)].y)))

centroid(pts) == Pt(QDiv(SumX(pts), Whole(Len(pts))), QDiv(SumY(pts), Whole(Len(pts))))

\* the maxShots holes closest to the centroid, closest first, when there are more
trimToMaxShots(holes, maxShots) ==
  IF Len(holes) <= maxShots THEN holes
  ELSE [k \in 1..maxShots |->
          holes[SortedByDistance([j \in 1..Len(holes) |-> Dist2(holes[j], centroid(holes))])[k]]]

quadrantOfPoint(pt, bull) ==
  IF QLt(pt.x, bull.x) /\ QLt(bull.y, pt.y) THEN "UL"
  ELSE IF QLt(bull.y, pt.y) THEN "UR"
  ELSE IF QLt(pt.x, bull.x) THEN "LL"
  ELSE "LR"

uniqueQuadrants(holes, bull) == { quadrantOfPoint(holes[k], bull) : k \in 1..Len(holes) }

inchesToClicks(inches, distanceYards, clickValueMoa) ==
  QDiv(QDiv(inches, QMul(Q(1047, 1000), QDiv(distanceYards, Whole(100)))), clickValueMoa)

\* the direction word of labelFromSignedClicks
labelFromSignedClicks(signed, posWord, negWord) ==
  IF QLe(Whole(0), signed) THEN posWord ELSE negWord

SizeSpecs ==
  { <<>>, <<Whole(11)>>, <<Q(17, 2), Whole(11)>>, <<Whole(11), Q(17, 2)>>,
    <<Whole(0), Whole(11)>>, <<Whole(0), Whole(0)>> }

Bodies_008 ==
  { [holes |-> hs, bullX |-> b[1], bullY |-> b[2], distanceYards |-> d,
     clickValueMoa |-> Absent, minShots |-> ms, yAxis |-> ya, targetSizeSpec |-> t,
     multiQuadPolicy |-> mq] :
      hs \in HoleLists,
      b \in { <<Absent, Absent>>, <<Num(425), Num(550)>>, <<Num(425), Num(450)>> },
      d \in { Absent, Num(0) },
      ms \in { Absent, Num(0), Num(-100), Num(200) },
      ya \in { "", "up", "down" },
      t \in { <<>>, <<Q(17, 2), Whole(11)>>, <<Whole(0), Whole(11)>> },
      mq \in { "poib", "reject" } }

\* POIB, correction = bull - poib, clicks and labels
Respond_008(holesUsed, bull, distanceYards, clickValueMoa) ==
  Success(round2(inchesToClicks(QSub(bull.x, centroid(holesUsed).x), distanceYards, clickValueMoa)),
          round2(inchesToClicks(QSub(bull.y, centroid(holesUsed).y), distanceYards, clickValueMoa)),
          labelFromSignedClicks(
            inchesToClicks(QSub(bull.x, centroid(holesUsed).x), distanceYards, clickValueMoa),
            "RIGHT", "LEFT"),
          labelFromSignedClicks(
            inchesToClicks(QSub(bull.y, centroid(holesUsed).y), distanceYards, clickValueMoa),
            "UP", "DOWN"),
          centroid(holesUsed), bull, Len(holesUsed))

\* the min shots rule and the multi-quadrant policy
Shots_008(body, holes, bull) ==
  IF QLt(Whole(Len(holes)), parseNumber(body.minShots, Whole(3)))
  THEN Failure(400, "NOT_ENOUGH_SHOTS")
  ELSE IF body.multiQuadPolicy = "reject" /\ Cardinality(uniqueQuadrants(holes, bull)) > 1
  THEN Failure(400, "MULTI_QUAD")
  ELSE Respond_008(trimToMaxShots(holes, 7), bull, parseNumber(body.distanceYards, Whole(100)),
                   parseNumber(body.clickValueMoa, Hun(25)))

Sized_008(body, size) ==
  IF ~size.ok THEN Failure(400, "BAD_TARGET_SPEC")
  ELSE IF body.holes = <<>> THEN Failure(400, "MISSING_HOLES")
  ELSE IF \E i \in 1..Len(body.holes) : ~body.holes[i].obj THEN Failure(500, "SERVER_ERROR")
  ELSE Shots_008(body,
                 normalizeHolesToYUp(body.holes, size.heightIn,
                                     IF body.yAxis = "" THEN "up" ELSE body.yAxis),
                 Pt(parseNumber(body.bullX, QDiv(size.widthIn, Whole(2))),
                    parseNumber(body.bullY, QDiv(size.heightIn, Whole(2)))))

PostSec_008(body) == Sized_008(body, parseTargetSizeSpec(body.targetSizeSpec))

(***************************************************************************)
(* part_001: the hole finder of BULL_LOCKED_V1.  The flood fill is modelled *)
(* pixel by pixel, in the order of its queue: st is the state of the loop   *)
(* (queue, read index, visited pixels, area, sums, bounding box, and        *)
(* whether it stopped early).                                              *)
(***************************************************************************)
\* MIN_AREA, MAX_AREA
MIN_AREA_001 == 25

MAX_AREA_001 == 2500

\* the exclusion zones: the 5% border and the QR corner
excluded_001(i, w, h) ==
  \/ i % w < Floor100(Min(w, h), 5) \/ i % w > w - Floor100(Min(w, h), 5)
  \/ i \div w < Floor100(Min(w, h), 5) \/ i \div w > h - Floor100(Min(w, h), 5)
  \/ (i % w >= Floor100(w, 72) /\ i \div w >= Floor100(h, 72))

\* one neighbour of the fill: marked visited, queued when dark
visit_001(st, ni, inside, dark) ==
  IF ~inside \/ ni \in st.visited THEN st
  ELSE [st EXCEPT !.visited = @ \cup {ni}, !.q = IF ni \in dark THEN Append(@, ni) ELSE @]

\* the pixel read from the queue is counted
count_001(st, cx, cy) ==
  [st EXCEPT !.qi = @ + 1, !.area = @ + 1, !.sumX = @ + cx, !.sumY = @ + cy,
             !.minX = Min(@, cx), !.maxX = Max(@, cx), !.minY = Min(@, cy), !.maxY = Max(@, cy)]

\* "Early stop if huge"
earlyStop_001(st) == [st EXCEPT !.stopped = st.area > MAX_AREA_001]

\* one turn of while (qi < qx.length), for the pixel c = (cx, cy) read from the queue
fillTurn_001(st, c, cx, cy, w, h, dark) ==
  earlyStop_001(
    visit_001(
      visit_001(
        visit_001(
          visit_001(count_001(st, cx, cy), c - 1, cx - 1 >= 0, dark),
          c + 1, cx + 1 < w, dark),
        c - w, cy - 1 >= 0, dark),
      c + w, cy + 1 < h, dark))

\* a finished loop stays as it is
fillStep_001(st, w, h, dark) ==
  IF st.stopped \/ st.qi >= Len(st.q) THEN st
  ELSE fillTurn_001(st, st.q[st.qi + 1], st.q[st.qi + 1] % w, st.q[st.qi + 1] \div w, w, h, dark)

\* n turns of the loop
RECURSIVE fillSteps_001(_, _, _, _, _)
fillSteps_001(st, n, w, h, dark) ==
  IF st.stopped \/ st.qi >= Len(st.q) THEN st
  ELSE IF n <= 1 THEN fillStep_001(st, w, h, dark)
  ELSE fillSteps_001(fillSteps_001(st, n \div 2, w, h, dark), n - n \div 2, w, h, dark)

\* the fill that starts at pixel `start`: the scan has visited every pixel up to it
fill_001(start, visited, img) ==
  fillSteps_001([q |-> <<start>>, qi |-> 0, visited |-> visited \cup (0..start), area |-> 0,
                 sumX |-> 0, sumY |-> 0, minX |-> (start % img.w), maxX |-> (start % img.w),
                 minY |-> start \div img.w, maxY |-> start \div img.w, stopped |-> FALSE],
                img.w * img.h, img.w, img.h, img.dark)

\* the fills of the raster scan, in its order
RECURSIVE fills_001(_, _)
fills_001(visited, img) ==
  IF { i \in img.dark \ visited : ~excluded_001(i, img.w, img.h) } = {} THEN <<>>
  ELSE LET fill == fill_001(MinOf({ i \in img.dark \ visited : ~excluded_001(i, img.w, img.h) }),
                            visited, img)
       IN <<fill>> \o fills_001(fill.visited, img)

\* the fill is kept as a hole: its area and its aspect pass
kept_001(st) ==
  /\ ~(st.area < MIN_AREA_001 \/ st.area > MAX_AREA_001)
  /\ ~(Max(st.maxX - st.minX + 1, st.maxY - st.minY + 1)
         > 6 * Max(1, Min(st.maxX - st.minX + 1, st.maxY - st.minY + 1)))

holeOf_001(st) ==
  [cx |-> Q(st.sumX, st.area), cy |-> Q(st.sumY, st.area), area |-> st.area,
   bboxW |-> st.maxX - st.minX + 1, bboxH |-> st.maxY - st.minY + 1]

\* the holes returned, and beside them what every fill counted
found_001(fills) ==
  [holes |-> [k \in 1..Len(SelectIdx(fills, { j \in 1..Len(fills) : kept_001(fills[j]) })) |->
                holeOf_001(SelectIdx(fills, { j \in 1..Len(fills) : kept_001(fills[j]) })[k])],
   fills |-> [k \in 1..Len(fills) |-> [start |-> fills[k].q[1], area |-> fills[k].area,
                                       stopped |-> fills[k].stopped,
                                       kept |-> kept_001(fills[k])]]]

detectHolesFromGrayscale(img) == found_001(fills_001({}, img))

\* the side of the square images of the finder, and of the block in them
FinderSide == 64

BlockSide == 52

FinderImages ==
  { Image(FinderSide, FinderSide, {}),
    Image(FinderSide, FinderSide, Rect(FinderSide, 10, 16, 10, 16)),
    Image(FinderSide, FinderSide, Rect(FinderSide, 5, 4 + BlockSide, 5, 4 + BlockSide)),
    \* a mark whose first pixel is outside the bottom-right zone and whose
    \* centre is inside it
    Image(FinderSide, FinderSide, Rect(FinderSide, 44, 54, 44, 54)) }

(***************************************************************************)
(* The component scans of part_003 (findComponents, a queue, 8 neighbours) *)
(* and part_013 (connectedComponents, a stack, 4 neighbours), turn by      *)
(* turn.  A mask is the set of the indices y * w + x of its dark pixels.   *)
(* Each fill keeps the list of the pixels it pushed, in order, and the     *)
(* list of the pixels it counted (area++), in order.                       *)
(***************************************************************************)
\* the width and the height of the masks that are scanned
MaskW == 3
MaskH == 3

Masks == SUBSET (0..(MaskW * MaskH - 1))

\* part_003: if (nx < 0 || ny < 0 || nx >= w || ny >= h) continue;
\*           if (!mask[ni] || visited[ni]) continue; visited[ni] = 1; push
enqueueUnmarked_003(st, ni, inside, mask) ==
  IF ~inside \/ ni \notin mask \/ ni \in st.visited THEN st
  ELSE [st EXCEPT !.q = Append(@, ni)]

enqueue_003(st, ni, inside, mask) ==
  IF ~inside \/ ni \notin mask \/ ni \in st.visited THEN st
  ELSE [st EXCEPT !.visited = @ \cup {ni}, !.q = Append(@, ni)]

\* one turn of for (qi = 0; qi < qx.length; qi++), for the pixel c = (cx, cy)
turn_003(st, c, cx, cy, w, h, mask) ==
  enqueue_003(enqueue_003(enqueue_003(enqueue_003(
  enqueue_003(enqueue_003(enqueue_003(enqueue_003(
    [st EXCEPT !.qi = @ + 1, !.counted = Append(@, c)],
    c - w - 1, cx - 1 >= 0 /\ cy - 1 >= 0, mask),
    c - w, cy - 1 >= 0, mask),
    c - w + 1, cx + 1 < w /\ cy - 1 >= 0, mask),
    c - 1, cx - 1 >= 0, mask),
    c + 1, cx + 1 < w, mask),
    c + w - 1, cx - 1 >= 0 /\ cy + 1 < h, mask),
    c + w, cy + 1 < h, mask),
    c + w + 1, cx + 1 < w /\ cy + 1 < h, mask)

\* n turns of the loop; a finished loop stays as it is
RECURSIVE turns_003(_, _, _, _, _)
turns_003(st, n, w, h, mask) ==
  IF st.qi >= Len(st.q) THEN st
  ELSE IF n <= 1
  THEN turn_003(st, st.q[st.qi + 1], st.q[st.qi + 1] % w, st.q[st.qi + 1] \div w, w, h, mask)
  ELSE turns_003(turns_003(st, n \div 2, w, h, mask), n - n \div 2, w, h, mask)

\* one fill, from the pixel where the scan starts it; the loop is followed
\* for w * h + 1 turns, and `finished` tells whether it has ended by then
fill_003(start, visited, w, h, mask) ==
  turns_003([q |-> <<start>>, qi |-> 0, visited |-> visited \cup {start}, counted |-> <<>>],
            w * h + 1, w, h, mask)

component_003(st) ==
  [area |-> Len(st.counted), counted |-> st.counted, pushed |-> st.q,
   finished |-> st.qi >= Len(st.q)]

\* the raster scan: a fill starts at the first dark pixel not yet visited
RECURSIVE scan_003(_, _, _, _)
scanNext_003(st, w, h, mask) ==
  <<component_003(st)>> \o scan_003(st.visited, w, h, mask)

scan_003(visited, w, h, mask) ==
  IF mask \ visited = {} THEN <<>>
  ELSE scanNext_003(fill_003(MinOf(mask \ visited), visited, w, h, mask), w, h, mask)

\* part_013: if (cx > 0 && mask[n1] && !visited[n1]) { visited[n1] = 1; stack.push(n1); }
pushUnmarked_013(st, ni, inside, mask) ==
  IF ~inside \/ ni \notin mask \/ ni \in st.visited THEN st
  ELSE [st EXCEPT !.stack = Append(@, ni), !.pushed = Append(@, ni)]

push_013(st, ni, inside, mask) ==
  IF ~inside \/ ni \notin mask \/ ni \in st.visited THEN st
  ELSE [st EXCEPT !.visited = @ \cup {ni}, !.stack = Append(@, ni), !.pushed = Append(@, ni)]

\* one turn of while (stack.length), for the pixel cur = (cx, cy) popped
turn_013(st, cur, cx, cy, w, h, mask) ==
  push_013(push_013(push_013(push_013(
    [st EXCEPT !.stack = SubSeq(@, 1, Len(@) - 1), !.counted = Append(@, cur)],
    cur - 1, cx > 0, mask),
    cur + 1, cx < w - 1, mask),
    cur - w, cy > 0, mask),
    cur + w, cy < h - 1, mask)

RECURSIVE turns_013(_, _, _, _, _)
turns_013(st, n, w, h, mask) ==
  IF st.stack = <<>> THEN st
  ELSE IF n <= 1
  THEN turn_013(st, st.stack[Len(st.stack)], st.stack[Len(st.stack)] % w,
                st.stack[Len(st.stack)] \div w, w, h, mask)
  ELSE turns_013(turns_013(st, n \div 2, w, h, mask), n - n \div 2, w, h, mask)

fill_013(start, visited, w, h, mask) ==
  turns_013([stack |-> <<start>>, pushed |-> <<start>>, visited |-> visited \cup {start},
             counted |-> <<>>], w * h + 1, w, h, mask)

component_013(st) ==
  [area |-> Len(st.counted), counted |-> st.counted, pushed |-> st.pushed,
   finished |-> st.stack = <<>>]

RECURSIVE scan_013(_, _, _, _)
scanNext_013(st, w, h, mask) ==
  <<component_013(st)>> \o scan_013(st.visited, w, h, mask)

scan_013(visited, w, h, mask) ==
  IF mask \ visited = {} THEN <<>>
  ELSE scanNext_013(fill_013(MinOf(mask \ visited), visited, w, h, mask), w, h, mask)

(***************************************************************************)
(* part_006 (BULL_LOCKED_V2, "UI tolerant"): the bull is the centre of the *)
(* sheet and the holes come from detectHolesFallback, which finds none.    *)
(* A request states its size as targetSizeSpec; targetSizeInches, widthIn  *)
(* and heightIn are not sent.                                              *)
(***************************************************************************)
\* toNum(v) ?? dflt
toNumOr_006(v, dflt) == IF IsFinite(Number(v)) THEN Number(v) ELSE dflt

\* parseSpec: the text "axb" with a > 0 and b > 0, else null
parseSpec_006(parts) ==
  IF Len(parts) # 2 THEN NoSize
  ELSE IF ~IsPos(parts[1]) \/ ~IsPos(parts[2]) THEN NoSize
  ELSE [ok |-> TRUE, widthIn |-> parts[1], heightIn |-> parts[2]]

\* without a size the handler takes 8.5x11
sizeOf_006(parsed) ==
  IF parsed.ok THEN parsed ELSE [ok |-> TRUE, widthIn |-> Q(17, 2), heightIn |-> Whole(11)]

\* "return empty holes so pipeline still responds gracefully"
detectHolesFallback == [holes |-> <<>>, normalized |-> [given |-> FALSE]]

\* const inPerClick = inchesPerMOA(distanceYards) / clickValueMoa;
inPerClick_006(distanceYards, clickValueMoa) ==
  QDiv(inchesPerMOA(distanceYards), clickValueMoa)

\* the mean of the holes, in inches of a sheet normalized to 1000 x 1000 px
groupCenterIn_006(holes, widthIn, heightIn) ==
  Pt(QMul(QDiv(SumX(holes), Whole(Len(holes))), QDiv(widthIn, Whole(1000))),
     QMul(QDiv(SumY(holes), Whole(Len(holes))), QDiv(heightIn, Whole(1000))))

\* the answer computed from the correction bull - group
Computed_006(corrX, corrY, inPerClick, group, bull, used) ==
  Success(round2Safe(QDiv(corrX, inPerClick)), round2Safe(QDiv(corrY, inPerClick)),
          IF QLe(Whole(0), corrX) THEN "RIGHT" ELSE "LEFT",
          IF QLe(Whole(0), corrY) THEN "UP" ELSE "DOWN",
          group, bull, used)

Respond_006(holes, group, widthIn, heightIn, distanceYards, clickValueMoa) ==
  IF Len(holes) = 0 THEN Failure(200, "HOLES_NOT_FOUND")
  ELSE Computed_006(QSub(QDiv(widthIn, Whole(2)), group.x), QSub(QDiv(heightIn, Whole(2)), group.y),
                    inPerClick_006(distanceYards, clickValueMoa), group,
                    Pt(QDiv(widthIn, Whole(2)), QDiv(heightIn, Whole(2))), Len(holes))

Detect_006(detect, size, distanceYards, clickValueMoa) ==
  Respond_006(detect.holes,
              IF Len(detect.holes) = 0 THEN Pt(NaN, NaN)
              ELSE groupCenterIn_006(detect.holes, size.widthIn, size.heightIn),
              size.widthIn, size.heightIn, distanceYards, clickValueMoa)

PostSec_006(body) ==
  IF body.image = NoImage THEN Failure(400, "NO_IMAGE")
  ELSE Detect_006(detectHolesFallback, sizeOf_006(parseSpec_006(body.targetSizeSpec)),
                  toNumOr_006(body.distanceYards, Whole(100)),
                  toNumOr_006(body.clickValueMoa, Hun(25)))

Bodies_006 ==
  { [image |-> im, distanceYards |-> d, clickValueMoa |-> c, targetSizeSpec |-> t] :
      im \in { NoImage, Image(Side, Side, Frame \cup Cross \cup Shot(8, 8)) },
      d \in Distances \cup {Num(20000)}, c \in ClickValues \cup {Num(100), Num(50)},
      t \in SizeSpecs }

\* masks for findBlobs of part_009, 12 px wide and 8 px high: a blob away
\* from the sides, and a mark at the left side with a mark at the right side
\* one row higher
BlobMasks ==
  { Image(12, 8, {}),
    Image(12, 8, Rect(12, 3, 8, 2, 6)),
    Image(12, 8, Rect(12, 0, 3, 3, 5) \cup Rect(12, 8, 11, 1, 4)) }

\* the pixels of each fill of findBlobs, in the order of the raster scan
fillsOf_findBlobs(mask, w, h) ==
  Fills({ i \in mask : i % w \in 1..(w - 2) /\ i \div w \in 1..(h - 2) }, mask, w, h, "n8linear")



(***************************************************************************)
(* The server: idle, or having answered one request                        *)
(***************************************************************************)
NoReq == [none |-> TRUE]

NoResp == Failure(0, "")

Init == variant = "idle" /\ req = NoReq /\ resp = NoResp

Post004 ==
  /\ variant = "idle"
  /\ \E body \in CoordBodies :
       variant' = "part_004" /\ req' = body /\ resp' = PostSec_004(body)

Post005 ==
  /\ variant = "idle"
  /\ \E body \in CoordBodies :
       variant' = "part_005" /\ req' = body /\ resp' = PostSec_005(body)

Post011 ==
  /\ variant = "idle"
  /\ \E body \in CoordBodies :
       variant' = "part_011" /\ req' = body /\ resp' = PostSec_011(body)

Post014 ==
  /\ variant = "idle"
  /\ \E body \in CoordBodies :
       variant' = "part_014" /\ req' = body /\ resp' = PostSec_014(body)

Post013 ==
  /\ variant = "idle"
  /\ \E body \in CoordBodies :
       variant' = "part_013" /\ req' = body /\ resp' = PostSec_013(body)

PostAlwaysImage ==
  /\ variant = "idle"
  /\ \E body \in Bodies_AlwaysImage :
       /\ variant' = "REAL_ALWAYS_IMAGE_POIB_v1"
       /\ req' = body
       /\ resp' = PostSec_AlwaysImage(body)

Post009 ==
  /\ variant = "idle"
  /\ \E body \in ImageBodies :
       variant' = "part_009" /\ req' = body /\ resp' = PostSec_009(body)

\* centroids of a tight group, 6 px apart, and of flyers far from it
TightPool == { <<x, y>> : x \in {100, 106, 112}, y \in {100, 106, 112} }

FlyerPool == { <<10, 10>>, <<300, 20>>, <<20, 300>> }

\* the blobs with the given centroids, in the order a raster scan finds them
RECURSIVE BlobsAt(_)
BlobsAt(points) ==
  IF points = {} THEN <<>>
  ELSE LET p == CHOOSE q \in points :
                  \A r \in points : q[2] < r[2] \/ (q[2] = r[2] /\ q[1] <= r[1])
       IN <<[area |-> 25, w |-> 5, h |-> 5, centroidPx |-> Pt(Whole(p[1]), Whole(p[2]))]>>
          \o BlobsAt(points \ {p})

ClusterInputs ==
  { BlobsAt(T \cup F) :
      T \in { S \in SUBSET TightPool : Cardinality(S) \in {0, 2, 5} },
      F \in { S \in SUBSET FlyerPool : Cardinality(S) \in {0, 2} } }

\* part_009 selects the group among the blobs it found
ChooseCluster ==
  /\ variant = "idle"
  /\ \E blobs \in ClusterInputs :
       /\ variant' = "part_009.chooseTightCluster"
       /\ req' = [blobs |-> blobs]
       /\ resp' = [status |-> 200, ok |-> TRUE, error |-> "",
                   selected |-> chooseTightCluster(blobs)]

PostV4 ==
  /\ variant = "idle"
  /\ \E body \in ImageBodies :
       variant' = "REAL_v4" /\ req' = body /\ resp' = PostSec_v4(body)

Post003 ==
  /\ variant = "idle"
  /\ \E body \in Bodies_003 :
       variant' = "part_003" /\ req' = body /\ resp' = PostSec_003(body)

PostBullLocked ==
  /\ variant = "idle"
  /\ \E body \in BullLockedBodies :
       variant' = "BULL_LOCKED_V2" /\ req' = body /\ resp' = PostSec_BullLocked(body)

\* part_012 words the signed clicks an engine returned
ClickPairs ==
  { [windage |-> Hun(w), elevation |-> Hun(e)] : w \in {-138, 0, 138}, e \in {-262, 0, 262} }

Directions012 ==
  /\ variant = "idle"
  /\ \E clicksSigned \in ClickPairs :
       /\ variant' = "part_012"
       /\ req' = clicksSigned
       /\ resp' = [status |-> 200, ok |-> TRUE, error |-> "", clicksSigned |-> clicksSigned,
                   clicks |-> signedToDirections(clicksSigned)]

PostWindageLock ==
  /\ variant = "idle"
  /\ \E body \in Bodies_WindageLock, base \in Measurements_WindageLock :
       /\ variant' = "SEC_BACKEND_WINDAGE_LOCK_v1"
       /\ req' = [body |-> body, base |-> base]
       /\ resp' = PostSec_WindageLock(body, base)

Post000 ==
  /\ variant = "idle"
  /\ \E body \in CoordBodies :
       variant' = "part_000" /\ req' = body /\ resp' = PostSec_000(body)

Post012 ==
  /\ variant = "idle"
  /\ \E body \in Bodies_012, outcome \in EngineOutcomes :
       /\ variant' = "BULL_LOCKED_V5"
       /\ req' = [body |-> body, engine |-> outcome]
       /\ resp' = PostSec_012(body, outcome)

Post008 ==
  /\ variant = "idle"
  /\ \E body \in Bodies_008 :
       variant' = "part_008" /\ req' = body /\ resp' = PostSec_008(body)

\* part_008 and part_014 read a target size text
ParseSize008 ==
  /\ variant = "idle"
  /\ \E parts \in SizeSpecs :
       /\ variant' = "part_008.parseTargetSizeSpec"
       /\ req' = [targetSizeSpec |-> parts]
       /\ resp' = [status |-> 200, ok |-> TRUE, error |-> "", size |-> parseTargetSizeSpec(parts)]

ParseSize014 ==
  /\ variant = "idle"
  /\ \E parts \in SizeSpecs :
       /\ variant' = "part_014.parseSizeSpec"
       /\ req' = [targetSizeSpec |-> parts]
       /\ resp' = [status |-> 200, ok |-> TRUE, error |-> "", size |-> parseSizeSpec(parts)]

\* part_001 looks for the holes of an image
Find001 ==
  /\ variant = "idle"
  /\ \E img \in FinderImages :
       /\ variant' = "part_001.detectHolesFromGrayscale"
       /\ req' = [image |-> img]
       /\ resp' = [status |-> 200, ok |-> TRUE, error |-> "",
                   detect |-> detectHolesFromGrayscale(img)]

\* what each fill of detectHoles counted, and whether it was cut off
fillsOf_detectHoles(img) ==
  LET f == stackFills({}, { i \in img.dark : i % img.w \in 1..(img.w - 2)
                                             /\ i \div img.w \in 1..(img.h - 2) },
                      img.w, img.h)
  IN [k \in 1..Len(f) |-> [area |-> f[k].area, capped |-> f[k].capped]]

\* the side of a square image that is dark inside its 1-pixel border
BigSide == 127

FinderImages_BullLocked ==
  { Image(Side, Side, Frame \cup Cross \cup Shot(8, 8)),
    Image(BigSide, BigSide, Rect(BigSide, 1, BigSide - 2, 1, BigSide - 2)) }

\* server.js (BULL_LOCKED_V2) looks for the holes of an image
FindBullLocked ==
  /\ variant = "idle"
  /\ \E img \in FinderImages_BullLocked :
       /\ variant' = "BULL_LOCKED_V2.detectHoles"
       /\ req' = [image |-> img]
       /\ resp' = [status |-> 200, ok |-> TRUE, error |-> "", detect |-> detectHoles(img),
                   fills |-> fillsOf_detectHoles(img)]

\* findComponents of part_003 scans a mask
Components003 ==
  /\ variant = "idle"
  /\ \E mask \in Masks :
       /\ variant' = "part_003.findComponents"
       /\ req' = [mask |-> mask, w |-> MaskW, h |-> MaskH]
       /\ resp' = [status |-> 200, ok |-> TRUE, error |-> "",
                   comps |-> scan_003({}, MaskW, MaskH, mask)]

\* connectedComponents of part_013 scans a mask
Components013 ==
  /\ variant = "idle"
  /\ \E mask \in Masks :
       /\ variant' = "part_013.connectedComponents"
       /\ req' = [mask |-> mask, w |-> MaskW, h |-> MaskH]
       /\ resp' = [status |-> 200, ok |-> TRUE, error |-> "",
                   comps |-> scan_013({}, MaskW, MaskH, mask)]

\* POST /api/sec of part_006
Post006 ==
  /\ variant = "idle"
  /\ \E body \in Bodies_006 :
       variant' = "part_006" /\ req' = body /\ resp' = PostSec_006(body)

\* findBlobs of part_009 looks for the blobs of a mask, at 1 pixel per inch
FindBlobs009 ==
  /\ variant = "idle"
  /\ \E m \in BlobMasks :
       /\ variant' = "part_009.findBlobs"
       /\ req' = [image |-> m]
       /\ resp' = [status |-> 200, ok |-> TRUE, error |-> "",
                   blobs |-> findBlobs(m.dark, m.w, m.h, Whole(1)),
                   fills |-> fillsOf_findBlobs(m.dark, m.w, m.h)]

\* computePoibFromImage of REAL_v4 measures a target, for the default size
PoibFromImageV4 ==
  /\ variant = "idle"
  /\ \E im \in QueueImages :
       /\ variant' = "REAL_v4.computePoibFromImage"
       /\ req' = [image |-> im]
       /\ resp' = [status |-> 200, ok |-> TRUE, error |-> "",
                   found |-> computePoibFromImage(im, Whole(23))]

\* the response is sent; the server takes the next request
Sent == variant # "idle" /\ variant' = "idle" /\ req' = NoReq /\ resp' = NoResp

Next ==
  \/ Post004 \/ Post005 \/ Post011 \/ Post013 \/ Post014
  \/ Directions012
  \/ PostAlwaysImage \/ Post009 \/ PostV4 \/ PostBullLocked \/ Post003 \/ ChooseCluster
  \/ PostWindageLock
  \/ Post000
  \/ Post012
  \/ Post008 \/ ParseSize008 \/ ParseSize014
  \/ Find001 \/ FindBullLocked
  \/ Components003 \/ Components013
  \/ Post006
  \/ FindBlobs009
  \/ PoibFromImageV4
  \/ Sent

Spec == Init /\ [][Next]_vars

(***************************************************************************)
(* Two requests in flight at one server.  A handler runs from one await to *)
(* the next without interruption; what it holds across an await are the    *)
(* locals of its own activation.  Here variant names the server that runs, *)
(* req[c] is the request on connection c and resp[c] the activation that   *)
(* serves it: where it stands (pc), its locals and, once sent, its answer. *)
(* server.js (BULL_LOCKED_V2) awaits detectHoles; part_012                 *)
(* (BULL_LOCKED_V5) awaits its engine when one is loaded.                  *)
(***************************************************************************)
Conns == {1, 2}

Activation(pc, parsed, distanceYards, clickValueMoa, response) ==
  [pc |-> pc, parsed |-> parsed, distanceYards |-> distanceYards,
   clickValueMoa |-> clickValueMoa, response |-> response]

Idle == Activation("idle", parseTargetSpec(<<>>), NaN, NaN, NoResp)

\* locals kept in one place for the whole server: those of connection 2
localsOfServer(activations, c) == activations[2]

\* the locals of the activation that serves connection c
localsOf(activations, c) == activations[c]

InFlightBodies_BullLocked ==
  { [image |-> im, distanceYards |-> d, clickValueMoa |-> Absent, targetSizeSpec |-> t] :
      im \in { NoImage, Image(Side, Side, {}), Image(Side, Side, Frame \cup Cross \cup Shot(8, 8)),
               Image(Side, Side, Frame \cup Cross \cup Shot(27, 27)) },
      d \in { Absent, Num(20000) },
      t \in { <<>>, <<Whole(23)>>, <<Q(17, 2), Whole(11)>> } }

InFlightRequests_012 ==
  { [body |-> [image |-> TRUE, targetSizeInches |-> t], engine |-> o] :
      t \in { Num(0), Num(1100) },
      o \in { e \in EngineOutcomes :
                e.clicksSigned \in { NoClicks, Clicks(Num(138), Num(-262)), Clicks(Text, Num(-262)) } } }

\* server.js up to its await: the file, the numbers, the target size
Begin_BullLocked(body) ==
  IF body.image = NoImage
  THEN Activation("sent", parseTargetSpec(<<>>), NaN, NaN, Failure(400, "NO_IMAGE"))
  ELSE IF ~parseTargetSpec(body.targetSizeSpec).ok
  THEN Activation("sent", parseTargetSpec(body.targetSizeSpec), NaN, NaN,
                  Failure(400, "BAD_TARGET_SPEC"))
  ELSE Activation("await detectHoles", parseTargetSpec(body.targetSizeSpec),
                  safeNum(body.distanceYards, Whole(100)),
                  safeNum(body.clickValueMoa, Hun(25)), NoResp)

\* server.js from its await on: detect is what detectHoles resolved to
Resume_BullLocked(locals, detect) ==
  [locals EXCEPT !.pc = "sent",
                 !.response = Respond_BullLocked(locals.parsed, detect, locals.distanceYards,
                                                 locals.clickValueMoa)]

\* part_012 up to its await; without an engine it answers at once
Begin_012(request) ==
  IF PostSec_012(request.body, request.engine).status = 400 \/ request.engine.kind = "none"
  THEN [Idle EXCEPT !.pc = "sent", !.response = PostSec_012(request.body, request.engine)]
  ELSE [Idle EXCEPT !.pc = "await engine"]

InFlightInit ==
  /\ variant \in {"BULL_LOCKED_V2", "BULL_LOCKED_V5"}
  /\ req = [c \in Conns |-> NoReq]
  /\ resp = [c \in Conns |-> Idle]

Receive_BullLocked ==
  /\ variant = "BULL_LOCKED_V2"
  /\ \E c \in Conns, body \in InFlightBodies_BullLocked :
       /\ resp[c].pc = "idle"
       /\ req' = [req EXCEPT ![c] = body]
       /\ resp' = [resp EXCEPT ![c] = Begin_BullLocked(body)]
  /\ UNCHANGED variant

Detected_BullLocked ==
  /\ variant = "BULL_LOCKED_V2"
  /\ \E c \in Conns :
       /\ resp[c].pc = "await detectHoles"
       /\ resp' = [resp EXCEPT ![c] = Resume_BullLocked(localsOf(resp, c),
                                                        DetectedHoles[req[c].image])]
  /\ UNCHANGED <<variant, req>>

Receive_012 ==
  /\ variant = "BULL_LOCKED_V5"
  /\ \E c \in Conns, request \in InFlightRequests_012 :
       /\ resp[c].pc = "idle"
       /\ req' = [req EXCEPT ![c] = request]
       /\ resp' = [resp EXCEPT ![c] = Begin_012(request)]
  /\ UNCHANGED variant

EngineDone_012 ==
  /\ variant = "BULL_LOCKED_V5"
  /\ \E c \in Conns :
       /\ resp[c].pc = "await engine"
       /\ resp' = [resp EXCEPT ![c] =
                     [localsOf(resp, c) EXCEPT
                        !.pc = "sent",
                        !.response = Respond_012(TRUE, engineOutOf(req[c].engine))]]
  /\ UNCHANGED <<variant, req>>

\* the answer is on the wire; the connection takes the next request
Close ==
  /\ \E c \in Conns :
       /\ resp[c].pc = "sent"
       /\ req' = [req EXCEPT ![c] = NoReq]
       /\ resp' = [resp EXCEPT ![c] = Idle]
  /\ UNCHANGED variant

InFlightNext ==
  \/ Receive_BullLocked \/ Detected_BullLocked \/ Receive_012 \/ EngineDone_012 \/ Close

SpecInFlight == InFlightInit /\ [][InFlightNext]_vars

(***************************************************************************)
(* The claims                                                              *)
(***************************************************************************)
\* the request states or defaults distance 100 yd and 1/4 MOA clicks
NormalParams ==
  req.distanceYards \in {Absent, Num(10000)} /\ req.clickValueMoa \in {Absent, Num(25)}

Directional == {"RIGHT", "LEFT", "UP", "DOWN"}

\* C4: deadband.  When the request gives deadband 0.10 in and the distance
\* from bull to POIB on an axis is below it, part_011 and part_014 report
\* exactly 0 signed clicks on that axis.
C4_DeadbandZeroesAxis ==
  (variant \in {"part_011", "part_014"} /\ resp.ok /\ NormalParams /\ req.deadband = Num(10)) =>
     /\ QLt(QAbs(QSub(resp.bull.x, resp.poib.x)), Hun(10)) => IsZero(resp.windage)
     /\ QLt(QAbs(QSub(resp.bull.y, resp.poib.y)), Hun(10)) => IsZero(resp.elevation)

\* C5: round trip.  When the POIB equals the bull exactly, the signed clicks
\* are {0, 0} and neither label is a direction: for part_011 (dirLR, dirUD),
\* part_013 (labelFromSignedDelta) and the words of part_012
\* (signedToDirections) for clicks {0, 0}.
C5_RoundTripNeutral ==
  /\ (variant \in {"part_011", "part_013"} /\ resp.ok /\ NormalParams /\ resp.poib = resp.bull) =>
        /\ IsZero(resp.windage) /\ IsZero(resp.elevation)
        /\ resp.windageLabel \notin Directional
        /\ resp.elevationLabel \notin Directional
  /\ (variant = "part_012" /\ IsZero(req.windage) /\ IsZero(req.elevation)) =>
        /\ resp.clicks.windage.dir \notin Directional
        /\ resp.clicks.elevation.dir \notin Directional

\* C10: a holes[] with a malformed element (not an object, or x or y missing,
\* null or not finite) is refused: part_005 and part_011 answer with an error.
C10_MalformedHoleRejected ==
  (variant \in {"part_005", "part_011"} /\ NormalParams
     /\ \E i \in 1..Len(req.holes) :
          \/ ~req.holes[i].obj
          \/ req.holes[i].x.t # "num"
          \/ req.holes[i].y.t # "num") => ~resp.ok

\* the example request of the specification, with the given minShots field
ExampleBody(minShots) ==
  Body(<<Hole(Num(390), Num(485)), Hole(Num(388), Num(478))>>, <<Absent, Absent>>,
       <<Num(425), Num(550)>>, Num(10000), Num(25), Absent, minShots)

IsLineImage ==
  \/ req.image.dark = Rect(req.image.w, 0, 0, 0, req.image.h - 1)
  \/ req.image.dark = Rect(req.image.w, 0, req.image.w - 1, 0, 0)

\* C8: thin line.  For an image whose only dark pixels are a 1-pixel line
\* spanning the image outside the central peak-search band,
\* detectTargetAndGroup reports holesDetected = 0.
C8_ThinLineNoHoles ==
  (variant = "REAL_ALWAYS_IMAGE_POIB_v1" /\ resp.ok /\ IsLineImage) => resp.holesUsed = 0

\* C1: windage direction.  With distance 100 yd, 1/4 MOA clicks and the POIB
\* at least 0.10 in off the bull horizontally, part_004 and part_009 report
\* windage > 0 and RIGHT when POIB.x < bull.x, and windage < 0 and LEFT when
\* POIB.x > bull.x.
C1_WindageDirection ==
  (variant \in {"part_004", "part_009"} /\ resp.ok /\ NormalParams
     /\ QLe(Hun(10), QAbs(QSub(resp.poib.x, resp.bull.x)))) =>
     /\ QLt(resp.poib.x, resp.bull.x) => (IsPos(resp.windage) /\ resp.windageLabel = "RIGHT")
     /\ QLt(resp.bull.x, resp.poib.x) => (IsNeg(resp.windage) /\ resp.windageLabel = "LEFT")

\* the blob pipeline of the variant finds no hole candidate in the image of
\* the request (and the request states no manual POIB)
NoHoleCandidates ==
  /\ req.image # NoImage
  /\ req.poibX = Absent /\ req.poibY = Absent
  /\ variant = "REAL_ALWAYS_IMAGE_POIB_v1" => DetectedTargetAndGroup[req.image].holesDetected = 0
  /\ variant = "part_009" => Detected_009[req.image].blobs = <<>>

\* C3: no holes.  When the pipeline yields no hole candidate (distance
\* 100 yd, 1/4 MOA clicks), the ALWAYS-IMAGE variant of server.js and
\* part_009 answer with a failure: never with an ok:true response whose
\* computeStatus is COMPUTED_FROM_IMAGE.
C3_NoHolesFailure ==
  (variant \in {"REAL_ALWAYS_IMAGE_POIB_v1", "part_009"} /\ NormalParams /\ NoHoleCandidates) =>
     ~(resp.ok /\ resp.computeStatus = "COMPUTED_FROM_IMAGE")

\* the centroids of the blobs at the given indices
CentroidsAt(idxs) == { <<req.blobs[i].centroidPx.x[1], req.blobs[i].centroidPx.y[1]>> : i \in idxs }

\* C7: cluster tightness.  Given 7 blobs, 5 of a tight group and 2 flyers,
\* chooseTightCluster selects all 5 of the group and neither flyer.
C7_TightClusterSelected ==
  (variant = "part_009.chooseTightCluster" /\ Len(req.blobs) = 7) =>
     CentroidsAt({ resp.selected[k] : k \in 1..Len(resp.selected) })
       = CentroidsAt(1..7) \cap TightPool

\* C2: zero distance.  A request with distanceYards = 0 (and 1/4 MOA
\* clicks, stated or by default) is refused: the BULL_LOCKED_V2 build of
\* server.js, part_003 and part_004 answer it with an error, never with a
\* success.
C2_ZeroDistanceRejected ==
  (variant \in {"BULL_LOCKED_V2", "part_003", "part_004"} /\ req.distanceYards = Num(0)
     /\ req.clickValueMoa \in {Absent, Num(25)}) => ~resp.ok

\* the width of the frame the variant found in the image of the request:
\* right edge minus left edge
FrameSpan ==
  IF variant = "part_009"
  THEN Detected_009[req.image].frame.edges.xR - Detected_009[req.image].frame.edges.xL
  ELSE Detected_v4[req.image].edges.xR - Detected_v4[req.image].edges.xL

\* C9: frame not found.  When the image has no dark pixel, or the frame
\* found in it is at most 2 px wide, and the request states no manual POIB
\* (distance 100 yd, 1/4 MOA clicks), part_009 and the REAL_v4 build of
\* server.js answer with a failure: never with an ok:true response whose
\* computeStatus is COMPUTED_FROM_IMAGE.
C9_FrameNotFound ==
  (variant \in {"part_009", "REAL_v4"} /\ req.image # NoImage /\ NormalParams
     /\ req.poibX = Absent /\ req.poibY = Absent
     /\ (req.image.dark = {} \/ FrameSpan <= 2)) =>
     ~(resp.ok /\ resp.computeStatus = "COMPUTED_FROM_IMAGE")

\* the holes of the request that part_011 keeps are at least minShots
EnoughHoles011 ==
  ~QLt(Whole(Len(CleanHoles(req.holes))),
       QMax(Whole(1), QFloor(toNumber(req.minShots, Whole(3)))))

\* C11: non-positive scope parameters.  part_011 refuses every request with
\* enough holes whose distanceYards or clickValueMoa is zero or negative,
\* both negative at once included: it answers with an error (BAD_CLICK_VALUE)
\* and no clicks.
C11_NonPositiveScopeRejected ==
  (variant = "part_011" /\ EnoughHoles011
     /\ (req.distanceYards \in {Num(0), Num(-10000)} \/ req.clickValueMoa \in {Num(0), Num(-25)}))
    => ~resp.ok

\* a computed answer of the windage-lock server for a positive distance and click value
LockComputed ==
  /\ variant = "SEC_BACKEND_WINDAGE_LOCK_v1" /\ resp.ok
  /\ resp.computeStatus = "COMPUTED_FROM_IMAGE"
  /\ IsFinite(resp.sec.distanceYards) /\ IsPos(resp.sec.distanceYards)
  /\ IsFinite(resp.sec.clickValueMoa) /\ IsPos(resp.sec.clickValueMoa)

\* C12: direction rules of the windage-lock server (computeDialFromOffsets).
\* For a positive distance and click value: a POIB left of the bull dials
\* RIGHT, right of it LEFT, above it in the image DOWN, below it UP, and a
\* zero offset dials CENTER with 0 clicks; the signed clicks never have the
\* sign opposite to their word (RIGHT and UP are positive).
C12_WindageLockDirections ==
  LockComputed =>
    /\ resp.dial.windage[1] =
         (IF IsNeg(resp.poibInches[1].x) THEN "RIGHT"
          ELSE IF IsPos(resp.poibInches[1].x) THEN "LEFT" ELSE "CENTER")
    /\ resp.dial.elevation[1] =
         (IF IsNeg(resp.poibInches[1].y) THEN "DOWN"
          ELSE IF IsPos(resp.poibInches[1].y) THEN "UP" ELSE "CENTER")
    /\ resp.dial.windage[1] = "CENTER" =>
         IsZero(resp.clicksSigned.windage) /\ IsZero(resp.dial.windage[2])
    /\ resp.dial.elevation[1] = "CENTER" =>
         IsZero(resp.clicksSigned.elevation) /\ IsZero(resp.dial.elevation[2])
    /\ resp.dial.windage[1] = "RIGHT" => ~IsNeg(resp.clicksSigned.windage)
    /\ resp.dial.windage[1] = "LEFT" => ~IsPos(resp.clicksSigned.windage)
    /\ resp.dial.elevation[1] = "UP" => ~IsNeg(resp.clicksSigned.elevation)
    /\ resp.dial.elevation[1] = "DOWN" => ~IsPos(resp.clicksSigned.elevation)

\* a POIB 1.50 in left of and 1.50 in below the bull is dialled RIGHT and UP
C12_LeftLowDialled ==
  /\ LockComputed
  /\ resp.poibInches = <<Pt(Hun(-150), Hun(150))>>
  /\ resp.dial.windage[1] = "RIGHT" /\ IsPos(resp.clicksSigned.windage)
  /\ resp.dial.elevation[1] = "UP" /\ IsPos(resp.clicksSigned.elevation)

\* C13: labels follow the reported sign.  In a success response of part_000
\* and of part_004 (distance 100 yd, 1/4 MOA clicks) the windage label is
\* RIGHT iff clicksSigned.windage > 0, LEFT iff it is < 0 and HOLD iff it is
\* 0; the elevation label likewise, positive being DOWN for part_000 and UP
\* for part_004.
C13_LabelsFollowSign ==
  (variant \in {"part_000", "part_004"} /\ resp.ok /\ NormalParams) =>
    /\ resp.windageLabel = "RIGHT" <=> IsPos(resp.windage)
    /\ resp.windageLabel = "LEFT" <=> IsNeg(resp.windage)
    /\ resp.windageLabel = "HOLD" <=> IsZero(resp.windage)
    /\ resp.elevationLabel = (IF variant = "part_000" THEN "DOWN" ELSE "UP")
         <=> IsPos(resp.elevation)
    /\ resp.elevationLabel = (IF variant = "part_000" THEN "UP" ELSE "DOWN")
         <=> IsNeg(resp.elevation)
    /\ resp.elevationLabel = "HOLD" <=> IsZero(resp.elevation)

\* the answer of part_013 to the request of this state sent at 200 yards
At200Yards == PostSec_013([req EXCEPT !.distanceYards = Num(20000)])

\* a success of part_013 at 100 yards with 1/4 MOA clicks
Served013At100 == variant = "part_013" /\ resp.ok /\ NormalParams

\* C14 as stated: for fixed holes, bull and click value, the click magnitude
\* part_013 reports in clicksSigned at 200 yards is exactly half the magnitude
\* it reports at 100 yards, on both axes.
C14_DoubleDistanceHalvesExactly ==
  Served013At100 =>
    /\ At200Yards.ok
    /\ QMul(Whole(2), QAbs(At200Yards.windage)) = QAbs(resp.windage)
    /\ QMul(Whole(2), QAbs(At200Yards.elevation)) = QAbs(resp.elevation)

\* C14: scale invariance up to the rounding of the response.  For fixed
\* holes, bull and click value, twice the click magnitude part_013 reports at
\* 200 yards differs from the magnitude it reports at 100 yards by at most
\* 0.01 click, on both axes (clicksSigned is rounded to two decimals).
C14_DoubleDistanceHalvesRounded ==
  Served013At100 =>
    /\ At200Yards.ok
    /\ QLe(QAbs(QSub(QMul(Whole(2), QAbs(At200Yards.windage)), QAbs(resp.windage))), Hun(1))
    /\ QLe(QAbs(QSub(QMul(Whole(2), QAbs(At200Yards.elevation)), QAbs(resp.elevation))), Hun(1))

\* 2.48 clicks of elevation at 100 yards are 1.24 clicks at 200 yards
C14_HalvedAt200 ==
  /\ Served013At100
  /\ QAbs(resp.elevation) = Hun(248)
  /\ At200Yards.ok /\ QAbs(At200Yards.elevation) = Hun(124)

\* C16: the gateway always returns numeric clicksSigned.  For every POST to
\* part_012 with an image and a usable target size, whatever the engine does
\* (returns null, undefined or a non-object, returns an object without
\* numeric clicksSigned, or throws), the response is a 200 result whose
\* clicksSigned has finite windage and elevation, never SERVER_ERROR.
C16_GatewayAlwaysNumericClicks ==
  (variant = "BULL_LOCKED_V5" /\ req.body.image
     /\ req.body.targetSizeInches \in {Num(1100), Num(2300)}) =>
    /\ resp.status = 200 /\ resp.ok
    /\ IsFinite(resp.clicksSigned.windage) /\ IsFinite(resp.clicksSigned.elevation)

\* the answer the request on connection c gets when it is served alone
AloneResponse(c) ==
  IF variant = "BULL_LOCKED_V2" THEN PostSec_BullLocked(req[c])
  ELSE PostSec_012(req[c].body, req[c].engine)

\* C15: request isolation.  However two requests in flight at server.js
\* (BULL_LOCKED_V2) or at part_012 interleave at their awaits, each is
\* answered as it would be when served alone.
C15_RequestIsolation ==
  \A c \in Conns : resp[c].pc = "sent" => resp[c].response = AloneResponse(c)

\* two different requests were in flight together: one is answered with its
\* clicks while the other, which has no hole to find, still awaits detectHoles
C15_AnsweredWhileOtherAwaits ==
  /\ variant = "BULL_LOCKED_V2"
  /\ resp[1].pc = "sent" /\ resp[1].response.ok
  /\ resp[2].pc = "await detectHoles" /\ req[2].image = Image(Side, Side, {})
  /\ req[2].targetSizeSpec # req[1].targetSizeSpec

\* C17: the POIB needs at least one hole.  Every success response of part_008
\* for the letter sheet at the default distance was computed from at least
\* one valid hole and has a finite POIB and finite clicks, whatever minShots
\* (0 and negatives included) and whatever holes[].
C17_SuccessNeedsAHole ==
  (variant = "part_008" /\ resp.ok /\ req.distanceYards = Absent
     /\ req.targetSizeSpec = <<Q(17, 2), Whole(11)>>) =>
    /\ resp.holesUsed >= 1
    /\ IsFinite(resp.poib.x) /\ IsFinite(resp.poib.y)
    /\ IsFinite(resp.windage) /\ IsFinite(resp.elevation)

\* C18: target size positivity.  parseTargetSizeSpec (part_008) and
\* parseSizeSpec (part_014) give a size only when both dimensions are
\* strictly positive; "0x11" gives none.
C18_SizeStrictlyPositive ==
  (variant \in {"part_008.parseTargetSizeSpec", "part_014.parseSizeSpec"} /\ resp.size.ok) =>
    IsPos(resp.size.widthIn) /\ IsPos(resp.size.heightIn)

\* the request of this state as sent with yAxis "up": every y, bullY
\* included, replaced by heightIn - y (the sheet is 11 in high)
Flip(y) == IF y.t = "num" THEN [t |-> "num", v |-> QSub(Whole(11), y.v)] ELSE y

SentYUp ==
  [req EXCEPT !.yAxis = "up",
              !.bullY = Flip(req.bullY),
              !.holes = [i \in 1..Len(req.holes) |->
                           [req.holes[i] EXCEPT !.y = Flip(req.holes[i].y)]]]

\* C19: axis-convention equivalence.  A request to part_008 with yAxis "down"
\* whose holes and explicit bullY are in top-origin inches gets the same
\* clicksSigned and labels as the same configuration sent with yAxis "up".
C19_YDownEqualsYUp ==
  (variant = "part_008" /\ resp.ok /\ req.yAxis = "down" /\ req.bullY.t = "num"
     /\ req.distanceYards = Absent /\ req.targetSizeSpec = <<Q(17, 2), Whole(11)>>) =>
    /\ PostSec_008(SentYUp).ok
    /\ PostSec_008(SentYUp).windage = resp.windage
    /\ PostSec_008(SentYUp).elevation = resp.elevation
    /\ PostSec_008(SentYUp).windageLabel = resp.windageLabel
    /\ PostSec_008(SentYUp).elevationLabel = resp.elevationLabel

\* C20: oversized components are reported.  When a flood fill of detectHoles
\* (server.js) or of detectHolesFromGrayscale (part_001) stops early because
\* its area exceeded the ceiling, the component is among the holes returned.
C20_OversizedReported ==
  /\ variant = "part_001.detectHolesFromGrayscale" =>
       \A k \in 1..Len(resp.detect.fills) :
          resp.detect.fills[k].stopped =>
            \E j \in 1..Len(resp.detect.holes) :
               resp.detect.holes[j].area = resp.detect.fills[k].area
  /\ variant = "BULL_LOCKED_V2.detectHoles" =>
       \A k \in 1..Len(resp.fills) :
          resp.fills[k].capped =>
            \E j \in 1..Len(resp.detect.holes) :
               resp.detect.holes[j].area = resp.fills[k].area

\* a component scan has answered
Scanned == variant \in {"part_003.findComponents", "part_013.connectedComponents"}

\* how many times the components of a scan hold pixel p in the list `field`
TimesIn(comps, field, p) ==
  Cardinality({ kj \in UNION { {k} \X (1..Len(comps[k][field])) : k \in 1..Len(comps) } :
                  comps[kj[1]][field][kj[2]] = p })

\* C21: component partition.  For every mask, findComponents (part_003) and
\* connectedComponents (part_013) count every dark pixel in exactly one
\* component, exactly once, count no other pixel, and the areas of the
\* components add up to the number of dark pixels.
C21_ComponentsPartitionMask ==
  Scanned =>
    /\ \A p \in req.mask : TimesIn(resp.comps, "counted", p) = 1
    /\ \A p \in (0..(req.w * req.h - 1)) \ req.mask : TimesIn(resp.comps, "counted", p) = 0
    /\ SumRange([k \in 1..Len(resp.comps) |-> resp.comps[k].area], 1, Len(resp.comps))
         = Cardinality(req.mask)

\* part_013 has scanned a mask of two components, the second of two pixels
\* that touches the first by a corner only
C21_TwoComponentsScanned ==
  /\ variant = "part_013.connectedComponents"
  /\ req.mask = {0, MaskW + 1, MaskW + 2}
  /\ Len(resp.comps) = 2
  /\ resp.comps[2].area = 2

\* C30: flood-fill termination.  For every mask, each fill of findComponents
\* (part_003) and of connectedComponents (part_013) ends (its queue is read
\* to the end, its stack is emptied) within w * h turns; no pixel is pushed
\* twice in a scan, so the pushes of a scan number at most w * h.
C30_FillsEndWithinGrid ==
  Scanned =>
    /\ \A k \in 1..Len(resp.comps) :
         resp.comps[k].finished /\ Len(resp.comps[k].counted) <= req.w * req.h
    /\ \A p \in 0..(req.w * req.h - 1) : TimesIn(resp.comps, "pushed", p) <= 1
    /\ SumRange([k \in 1..Len(resp.comps) |-> Len(resp.comps[k].pushed)], 1, Len(resp.comps))
         <= req.w * req.h

\* part_003 has scanned the mask that is dark everywhere: one fill pushed
\* all w * h pixels
C30_WholeGridPushed ==
  /\ variant = "part_003.findComponents"
  /\ req.mask = 0..(MaskW * MaskH - 1)
  /\ Len(resp.comps) = 1
  /\ Len(resp.comps[1].pushed) = MaskW * MaskH

\* the point (cx, cy) lies in an exclusion zone of part_001 for a w by h image
InZone_001(cx, cy, w, h) ==
  \/ QLt(cx, Whole(Floor100(Min(w, h), 5))) \/ QLt(Whole(w - Floor100(Min(w, h), 5)), cx)
  \/ QLt(cy, Whole(Floor100(Min(w, h), 5))) \/ QLt(Whole(h - Floor100(Min(w, h), 5)), cy)
  \/ (QLe(Whole(Floor100(w, 72)), cx) /\ QLe(Whole(Floor100(h, 72)), cy))

\* C22: exclusion by centroid.  Every hole that detectHolesFromGrayscale
\* (part_001) returns has its centroid outside the exclusion zones: the 5%
\* margin on each side and the bottom-right region x >= 0.72 w, y >= 0.72 h.
C22_CentroidOutsideZones ==
  variant = "part_001.detectHolesFromGrayscale" =>
    \A j \in 1..Len(resp.detect.holes) :
       ~InZone_001(resp.detect.holes[j].cx, resp.detect.holes[j].cy,
                   req.image.w, req.image.h)

\* C23: select all when few.  Given at most 7 candidate blobs,
\* chooseTightCluster (part_009) selects every one of them.
C23_FewCandidatesAllSelected ==
  (variant = "part_009.chooseTightCluster" /\ Len(req.blobs) <= 7) =>
     { resp.selected[k] : k \in 1..Len(resp.selected) } = 1..Len(req.blobs)

\* inches per click of the image request at hand (part_009 lines 44-46)
Ipc009 ==
  QMul(QMul(Q(1047, 1000), QDiv(toNumberOrDefault(req.distanceYards, Whole(100)), Whole(100))),
       toNumberOrDefault(req.clickValueMoa, Hun(25)))

\* the mean centroid of the blobs part_009 selected in the image of the request
MeanSelected009 ==
  computePOIB([pos \in 1..Len(Detected_009[req.image].selected) |->
                 Detected_009[req.image].blobs[Detected_009[req.image].selected[pos]].centroidPx])

\* the offset of that mean from the centre, in inches, right and up positive,
\* with no rounding
ExactPoib009 ==
  Pt(QDiv(QSub(MeanSelected009.x, Whole(Detected_009[req.image].frame.center.xC)),
          Detected_009[req.image].pixelsPerInch),
     QNeg(QDiv(QSub(MeanSelected009.y, Whole(Detected_009[req.image].frame.center.yC)),
               Detected_009[req.image].pixelsPerInch)))

\* C24: single final rounding.  When part_009 computes the POIB from the
\* image, each of clicksSigned is the exact offset in inches divided by
\* inchesPerClick, rounded to 2 decimals once: nothing is rounded before.
C24_ClicksRoundedOnce ==
  (variant = "part_009" /\ resp.ok /\ resp.computeStatus = "COMPUTED_FROM_IMAGE"
     /\ IsFinite(Ipc009) /\ ~IsZero(Ipc009)) =>
    /\ resp.windage = round2(QDiv(ExactPoib009.x, Ipc009))
    /\ resp.elevation = round2(QDiv(ExactPoib009.y, Ipc009))

SentHalfSize == PostSec_AlwaysImage([req EXCEPT !.targetSizeInches = Num(1150)])

\* C26: scale derives from target size.  In the ALWAYS-IMAGE-POIB build of
\* server.js the POIB in inches is proportional to targetSizeInches: the
\* image of a request that states 23 in, sent again with 11.5 in, gives half
\* the poibInches on each axis.
C26_PoibScalesWithTargetSize ==
  (variant = "REAL_ALWAYS_IMAGE_POIB_v1" /\ resp.ok /\ req.targetSizeInches = Num(2300)) =>
    /\ SentHalfSize.poib.x = QDiv(resp.poib.x, Whole(2))
    /\ SentHalfSize.poib.y = QDiv(resp.poib.y, Whole(2))

\* the 4-connected dark region of the image of the request that holds pixel p
RegionOf(p) == Flood({p}, {p}, req.image.dark, req.image.w, req.image.h, "n4")

\* C27: no fragments of aborted blobs.  Every hole that
\* detectHolesFromGrayscale (part_001) returns is a whole connected dark
\* region, with the area of that region; no part of a region whose fill was
\* stopped at the area ceiling is returned as a hole.
C27_HolesAreWholeRegions ==
  variant = "part_001.detectHolesFromGrayscale" =>
    \A k \in 1..Len(resp.detect.fills) :
       resp.detect.fills[k].kept =>
         /\ resp.detect.fills[k].area = Cardinality(RegionOf(resp.detect.fills[k].start))
         /\ \A j \in 1..Len(resp.detect.fills) :
              resp.detect.fills[j].stopped =>
                resp.detect.fills[j].start \notin RegionOf(resp.detect.fills[k].start)

\* the pixels of px that are joined to its first pixel by steps between
\* 8-neighbours inside the w by h grid
Joined8(px, w, h) == Flood({MinOf(px)}, {MinOf(px)}, px, w, h, "n8")

\* C28: no edge wrap-around.  The pixels of each blob that findBlobs
\* (part_009) returns are 8-connected inside the image grid: no pixel of
\* column 0 is joined to a pixel of column w - 1 of the row above through
\* the linear index.
C28_BlobsConnectedInGrid ==
  variant = "part_009.findBlobs" =>
    \A k \in 1..Len(resp.fills) :
       (\E j \in 1..Len(resp.blobs) : resp.blobs[j] = BlobOf(resp.fills[k], req.image.w)) =>
          Joined8(resp.fills[k], req.image.w, req.image.h) = resp.fills[k]

\* C29: BFS queue bound.  In computePoibFromImage (REAL_v4) no flood fill
\* enqueues more pixels than the queue arrays hold (2 * width), no entry is
\* dequeued that was not enqueued, and every returned hole has a finite
\* centroid.
C29_QueueHoldsEveryFill ==
  variant = "REAL_v4.computePoibFromImage" =>
     /\ \A k \in 1..Len(resp.found.fills) :
           /\ resp.found.fills[k].pushed <= 2 * resp.found.width
           /\ ~resp.found.fills[k].lost
     /\ \A k \in 1..Len(resp.found.holesInches) :
           /\ IsFinite(resp.found.holesInches[k].x)
           /\ IsFinite(resp.found.holesInches[k].y)

====
